---- MODULE Spec2Model ----
(***************************************************************************)
(* Model of the media job orchestration and caching layer of the video    *)
(* clip manager main process (src/unnamed/part_000).                       *)
(*                                                                         *)
(* The main process is a single-threaded event loop: every IPC handler     *)
(* runs to its first await as one step, and every continuation (a promise  *)
(* settling, a subprocess event, a timer) is one later step.  External     *)
(* engine runs (ffprobe / ffmpeg subprocesses) are separate OS processes   *)
(* whose outcome, and whose moment of creating their output file, is       *)
(* chosen nondeterministically.  Filesystem calls of the main process are  *)
(* assumed to succeed; files follow POSIX semantics (unlinking a file a    *)
(* subprocess has open detaches the subprocess from the path).             *)
(*                                                                         *)
(* One source file is modelled.  Its stat (mtime, size) is abstracted to   *)
(* a version number that SourceChange increases; sha1(path, mtime, size)   *)
(* is abstracted to that version number (distinct stats, distinct keys).   *)
(***************************************************************************)
EXTENDS Integers, Sequences, FiniteSets, TLC

\* ---------------------------------------------------------------- bounds
MaxVer == 2
MaxRuns == 2
MaxReqs == 3
NumTracks == 2

Vers == 1..MaxVer
Tracks == 1..NumTracks

\* undefined argument of an IPC call
U == -1

\* (trimStart, trimEnd) argument pairs of get-cached-thumbnail
ThumbArgs == { <<U, U>>, <<0, 2>>, <<1, 2>> }

\* the `trim-${trimStart}-${trimEnd}` part of the thumbnail hash input
TrimTag(ts, te) == IF ts # U /\ te # U THEN <<ts, te>> ELSE <<U, U>>

NoTag == <<U, U>>
ThumbKeys == Vers \X { TrimTag(a[1], a[2]) : a \in ThumbArgs }

VARIABLES
  scope,                \* the cache whose handlers the behaviour exercises
  fileVer,              \* stat (mtime, size) of the source file
  numAudio,             \* number of audio streams of the source file
  metadataMemoryCache,  \* 0: no entry for the path; v: metadata probed from version v
  metaDisk,             \* vcm-meta: cache path -> 0 (absent) or metadata version
  thumbDisk,            \* vcm-thumbs: cache path -> "absent" | "part" (being written) | "full"
  audioDir,             \* vcm-audio: cache dir -> it exists
  audioDisk,            \* vcm-audio: cache dir -> track -> "absent" | "empty" | "part" | "full"
  metaTasks,            \* cache path -> run id or 0
  thumbTasks,           \* cache path -> run id or 0
  audioExtractTasks,    \* cache dir  -> run id or 0
  metaRuns,             \* the computations started by get-cached-metadata (src:
                        \* version probed; at: source version when it was cached)
  thumbRuns,            \* the computations started by get-cached-thumbnail
  audioRuns,            \* the computations started by get-cached-extracted-audio
  reqs,                 \* the IPC requests that wait or were answered by the last step
  nreq,                 \* number of IPC requests issued so far
  lastMetaOk,           \* history: latest successful get-cached-metadata result
  lastThumbOk           \* history: per arguments, latest successful thumbnail result

VARIABLES
  ePc,                  \* export-video: "idle" | "probe" | "enc" | "wait100" | "done"
  eArgs,                \* its arguments
  videoBitrateKbps,     \* working video bitrate of the size-targeting loop
  attempts,             \* retry counter of the size-targeting loop
  useCRF,               \* constant-quality mode requested for the next encodeOnce
  enc,                  \* the encode attempt awaited: kind, mode and pass
  proc,                 \* its ffmpeg subprocess: "none" | "starting" | "running" |
                        \* "ending" | "failing" | "signalled" | "killed" (exited,
                        \* event pending)
  activeExports,        \* the session has a registered command
  canceledExports,      \* the session id is in canceledExports
  outSize,              \* size of the file at outputPath, -1 if absent
  statFiles,            \* '<prefix>-0.log' (with its .mbtree) of the current
                        \* two-pass encode: "absent" | "small" | "ok"
  leaked,               \* statistics files of an earlier encode remain on disk
  result,               \* outcome of export-video: "none" | "path" | "canceled" | "error"
  encLog,               \* history: the attempts of this export that produced a file
  settles,              \* history: how each encode of this export settled
  nEnc,                 \* history: encode attempts started by this export
  nExports,             \* history: export-video invocations so far
  gapCancel,            \* history: cancel-export was handled between the passes
  runCancel             \* history: nEnc when cancel-export hit a running subprocess

exportVars == << ePc, eArgs, videoBitrateKbps, attempts, useCRF, enc, proc, activeExports,
                 canceledExports, outSize, statFiles, leaked, result, encLog, settles, nEnc,
                 nExports, gapCancel, runCancel >>

VARIABLES
  folderWatchers,       \* the root has a live watcher
  wGen,                 \* number of watchers made for the root so far
  fileSize,             \* size of the media file at the path, -1 if absent
  existingFiles,        \* per watcher: the path is in its existingFiles set
  debounceTimers,       \* per watcher: burst whose 500 ms timer is pending, 0 if none
  sizeCheck,            \* per watcher: the callback waiting 200 ms between size checks
  nBursts,              \* history: bursts of raw events so far
  notes,                \* history: notifications sent to the renderer
  handled,              \* history: how each timer callback ended
  mainWindow,           \* the application has its window
  scanned               \* history, per watcher: the path was there when it started

watchVars == << folderWatchers, wGen, fileSize, existingFiles, debounceTimers, sizeCheck,
                nBursts, notes, handled, mainWindow, scanned >>

\* content hash (database.ts)
VARIABLES
  hFiles,      \* path -> the file on disk: its bytes and its container duration
  hCall,       \* the getClipHash call in flight, with what it has read so far
               \* and whether it looks the duration up
  hashLog,     \* the calls that resolved: what each read and the digest it gave
  nHash,       \* getClipHash calls made
  nTouch       \* rewrites of a file

hashVars == << hFiles, hCall, hashLog, nHash, nTouch >>

\* clips store (database.ts)
VARIABLES
  clips,       \* contentHash -> the row of the clips table, or NoRow
  dbLast       \* the last store operation: its arguments, the table it found
               \* and what it returned

dbVars == << clips, dbLast >>

\* audio filter graph of an export (buildFilterAndMaps, second pass)
VARIABLES
  fArgs,       \* audioMode, outputType, numAudioStreams and audioTracks of the export
  onePass,     \* what buildFilterAndMaps gave encodeOnce, or NoGraph
  secondPass   \* the filters and mappings of the second pass, or NoGraph

filterVars == << fArgs, onePass, secondPass >>

\* capture timestamp of a thumbnail (get-cached-thumbnail)
VARIABLES
  tArgs,       \* duration, trimStart and trimEnd of the request, in milliseconds
  timestamp    \* the timestamp chosen for the capture, or U before it is chosen

stampVars == << tArgs, timestamp >>

\* the exports of one ExportPanel (one sender) and the panel's display
VARIABLES
  jobs,            \* per export-video invocation: where it stands, its kind, its
                   \* ffmpeg subprocess, the encodes it has yet to start, its
                   \* result and whether handleExport has taken the result
  nJobs,           \* handleExport calls so far; the latest is the newest export
  activeCmd,       \* activeExports entry of the sender: the job whose command it is, 0 if none
  cancelFlag,      \* the sender id is in canceledExports
  exportTokenRef,  \* exportTokenRef.current: the job of the current token, 0 if ""
  isProcessing,    \* the panel's isProcessing state
  shown,           \* processedVideoPath (the job it belongs to), exportStatus, exportProgress
  restartTimers,   \* pending 50 ms timers that will call handleExport
  failTimers       \* jobs whose 5 s 'Export failed' timer is pending

panelVars == << jobs, nJobs, activeCmd, cancelFlag, exportTokenRef, isProcessing, shown,
                restartTimers, failTimers >>

cacheVars == << scope, fileVer, numAudio, metadataMemoryCache, metaDisk, thumbDisk,
                audioDir, audioDisk, metaTasks, thumbTasks, audioExtractTasks,
                metaRuns, thumbRuns, audioRuns, reqs, nreq, lastMetaOk, lastThumbOk >>

\* what the handlers of one part leave alone
notCache == << exportVars, watchVars, hashVars, dbVars, filterVars, stampVars, panelVars >>
notExport == << cacheVars, watchVars, hashVars, dbVars, filterVars, stampVars, panelVars >>
notWatch == << cacheVars, exportVars, hashVars, dbVars, filterVars, stampVars, panelVars >>
notHash == << cacheVars, exportVars, watchVars, dbVars, filterVars, stampVars, panelVars >>
notDb == << cacheVars, exportVars, watchVars, hashVars, filterVars, stampVars, panelVars >>
notFilter == << cacheVars, exportVars, watchVars, hashVars, dbVars, stampVars, panelVars >>
notStamp == << cacheVars, exportVars, watchVars, hashVars, dbVars, filterVars, panelVars >>
notPanel == << cacheVars, exportVars, watchVars, hashVars, dbVars, filterVars, stampVars >>

\* ------------------------------------------------------------ cache keys
\* sha1(videoPath, mtimeMs, size) for the one modelled path
computeMetaCachePath(ver) == ver
computeCachedThumbPath(ver, ts, te) == << ver, TrimTag(ts, te) >>
computeAudioCacheDir(ver) == ver

NoArg == <<U, U>>
NoRes == [st |-> "none", ver |-> 0, tag |-> NoTag]
Res(st, ver, tag) == [st |-> st, ver |-> ver, tag |-> tag]
IsOk(res) == res.st \in {"meta", "path", "files"}

RunCount == Len(metaRuns) + Len(thumbRuns) + Len(audioRuns)

\* A request record: one handler invocation and, once it has returned, its
\* result.  ver is the source version when it arrived; run is the
\* computation it awaits (0: answered from a cache); started tells whether
\* it started that computation; prior is the latest successful result for
\* the same arguments when it arrived; evicted tells whether clear-cache or
\* a forceRefresh request removed the task entry of its computation.
NewReq(kind, arg, force, run, res, started, prior) ==
  [kind |-> kind, ver |-> fileVer, arg |-> arg, force |-> force, run |-> run,
   st |-> IF res.st = "none" THEN "waiting" ELSE "done", res |-> res,
   started |-> started, prior |-> prior, evicted |-> FALSE]

\* the waiting requests of a cache (and cache key) lose their task entry
Evict(rs, kinds, vers) ==
  [i \in DOMAIN rs |->
     IF rs[i].st = "waiting" /\ rs[i].kind \in kinds /\ rs[i].ver \in vers
       THEN [rs[i] EXCEPT !.evicted = TRUE] ELSE rs[i]]

IsWaiting(q) == q.st = "waiting"

\* the requests still waiting for their computation; the record of an
\* answered request is kept only until the next request or answer
Live == SelectSeq(reqs, IsWaiting)

Awaiting(kind, r) ==
  { i \in DOMAIN Live : Live[i].kind = kind /\ Live[i].run = r }

\* a handler invocation begins
Arrive(q) ==
  /\ nreq < MaxReqs
  /\ nreq' = nreq + 1
  /\ reqs' = Append(IF q.force THEN Evict(Live, {q.kind}, {q.ver}) ELSE Live, q)

\* the requests awaiting run r of a cache receive its outcome
Settle(kind, r, res) ==
  [i \in DOMAIN Live |->
     IF i \in Awaiting(kind, r) THEN [Live[i] EXCEPT !.st = "done", !.res = res]
                                ELSE Live[i]]

\* ------------------------------------------------------------ the source
\* the source file is rewritten: its mtime and size change
SourceChange ==
  /\ fileVer < MaxVer
  /\ fileVer' = fileVer + 1
  /\ lastMetaOk' = NoRes
  /\ lastThumbOk' = [a \in ThumbArgs |-> NoRes]
  /\ UNCHANGED << scope, numAudio, metadataMemoryCache, metaDisk, thumbDisk, audioDir,
                  audioDisk, metaTasks, thumbTasks, audioExtractTasks,
                  metaRuns, thumbRuns, audioRuns, reqs, nreq >>
  /\ UNCHANGED notCache

\* ------------------------------------------------- get-cached-metadata
MetaAnswer(res) ==
  /\ Arrive(NewReq("meta", NoArg, FALSE, 0, res, FALSE, lastMetaOk))
  /\ lastMetaOk' = res
  /\ UNCHANGED << metaTasks, metaRuns >>

GetCachedMetadata ==
  /\ LET cachePath == computeMetaCachePath(fileVer) IN
     IF metadataMemoryCache # 0
       THEN /\ MetaAnswer(Res("meta", metadataMemoryCache, NoTag))
            /\ UNCHANGED metadataMemoryCache
     ELSE IF metaDisk[cachePath] # 0
       THEN /\ metadataMemoryCache' = metaDisk[cachePath]
            /\ MetaAnswer(Res("meta", metaDisk[cachePath], NoTag))
     ELSE IF metaTasks[cachePath] # 0
       THEN /\ Arrive(NewReq("meta", NoArg, FALSE, metaTasks[cachePath],
                                           NoRes, FALSE, lastMetaOk))
            /\ UNCHANGED << metadataMemoryCache, metaTasks, metaRuns, lastMetaOk >>
     ELSE /\ RunCount < MaxRuns
          /\ metaRuns' = Append(metaRuns, [key |-> cachePath, src |-> fileVer,
                                             st |-> "probing", at |-> 0])
          /\ metaTasks' = [metaTasks EXCEPT ![cachePath] = Len(metaRuns) + 1]
          /\ Arrive(NewReq("meta", NoArg, FALSE, Len(metaRuns) + 1,
                                         NoRes, TRUE, lastMetaOk))
          /\ UNCHANGED << metadataMemoryCache, lastMetaOk >>
  /\ UNCHANGED << scope, fileVer, numAudio, metaDisk, thumbDisk, audioDir, audioDisk,
                  thumbTasks, audioExtractTasks, thumbRuns, audioRuns, lastThumbOk >>

\* ffprobe succeeded: the metadata is written to disk and to the memory
\* cache, the task entry is deleted, the waiting requests get the metadata
MetaProbeOk(r) ==
  /\ metaRuns[r].st = "probing"
  /\ LET run == metaRuns[r] IN
     /\ metaRuns' = [metaRuns EXCEPT ![r].st = "ok", ![r].at = fileVer]
     /\ metaDisk' = [metaDisk EXCEPT ![run.key] = run.src]
     /\ metadataMemoryCache' = run.src
     /\ metaTasks' = [metaTasks EXCEPT ![run.key] = 0]
     /\ reqs' = Settle("meta", r, Res("meta", run.src, NoTag))
     /\ lastMetaOk' = IF run.key = fileVer
                           /\ \E i \in Awaiting("meta", r) : ~Live[i].evicted
                        THEN Res("meta", run.src, NoTag) ELSE lastMetaOk
  /\ UNCHANGED << scope, fileVer, numAudio, thumbDisk, audioDir, audioDisk, thumbTasks,
                  audioExtractTasks, thumbRuns, audioRuns, nreq, lastThumbOk >>

\* ffprobe failed: the handler returns null
MetaProbeFail(r) ==
  /\ metaRuns[r].st = "probing"
  /\ metaRuns' = [metaRuns EXCEPT ![r].st = "null"]
  /\ metaTasks' = [metaTasks EXCEPT ![metaRuns[r].key] = 0]
  /\ reqs' = Settle("meta", r, Res("null", 0, NoTag))
  /\ UNCHANGED << scope, fileVer, numAudio, metadataMemoryCache, metaDisk, thumbDisk,
                  audioDir, audioDisk, thumbTasks, audioExtractTasks, thumbRuns,
                  audioRuns, nreq, lastMetaOk, lastThumbOk >>

\* ------------------------------------------------ get-cached-thumbnail
\* JavaScript !x for an optional number: undefined and 0 are falsy
Falsy(x) == x = U \/ x = 0

ThumbAnswer(arg, path) ==
  /\ Arrive(NewReq("thumb", arg, FALSE, 0, Res("path", path[1], path[2]),
                                 FALSE, lastThumbOk[arg]))
  /\ lastThumbOk' = [lastThumbOk EXCEPT ![arg] = Res("path", path[1], path[2])]
  /\ UNCHANGED << thumbTasks, thumbRuns >>

GetCachedThumbnail(arg) ==
  /\ LET outPath == computeCachedThumbPath(fileVer, arg[1], arg[2])
         oldPath == computeCachedThumbPath(fileVer, U, U)
     IN
     IF thumbDisk[outPath] # "absent"
       THEN ThumbAnswer(arg, outPath)
     ELSE IF thumbDisk[oldPath] # "absent" /\ (Falsy(arg[1]) \/ Falsy(arg[2]))
       THEN ThumbAnswer(arg, oldPath)
     ELSE IF thumbTasks[outPath] # 0
       THEN /\ Arrive(NewReq("thumb", arg, FALSE, thumbTasks[outPath],
                                           NoRes, FALSE, lastThumbOk[arg]))
            /\ UNCHANGED << thumbTasks, thumbRuns, lastThumbOk >>
     ELSE /\ RunCount < MaxRuns
          /\ thumbRuns' = Append(thumbRuns, [key |-> outPath, st |-> "pending",
                                             proc |-> "run", att |-> FALSE])
          /\ thumbTasks' = [thumbTasks EXCEPT ![outPath] = Len(thumbRuns) + 1]
          /\ Arrive(NewReq("thumb", arg, FALSE, Len(thumbRuns) + 1,
                                         NoRes, TRUE, lastThumbOk[arg]))
          /\ UNCHANGED lastThumbOk
  /\ UNCHANGED << scope, fileVer, numAudio, metadataMemoryCache, metaDisk, thumbDisk, audioDir,
                  audioDisk, metaTasks, audioExtractTasks, metaRuns, audioRuns, lastMetaOk >>

thumbFrame == << scope, fileVer, numAudio, metadataMemoryCache, metaDisk, audioDir, audioDisk,
                 metaTasks, audioExtractTasks, metaRuns, audioRuns, nreq, lastMetaOk >>

\* the ffmpeg subprocess opens (creates or truncates) its output file
ThumbCreateFile(r) ==
  /\ thumbRuns[r].proc = "run"
  /\ thumbRuns' = [thumbRuns EXCEPT ![r].proc = "open", ![r].att = TRUE]
  /\ thumbDisk' = [thumbDisk EXCEPT ![thumbRuns[r].key] = "part"]
  /\ UNCHANGED << thumbTasks, reqs, lastThumbOk >>
  /\ UNCHANGED thumbFrame

\* mutant of ThumbSettled: the entry is deleted on success only (.then
\* instead of .finally)
ThumbSettledThen(r, st, res) ==
  /\ thumbRuns' = [thumbRuns EXCEPT ![r].st = st, ![r].proc = "exit", ![r].att = FALSE]
  /\ thumbTasks' = IF st = "ok" THEN [thumbTasks EXCEPT ![thumbRuns[r].key] = 0]
                                ELSE thumbTasks
  /\ reqs' = Settle("thumb", r, res)
  /\ UNCHANGED lastThumbOk

\* .finally of the thumbnail task: the entry of the key is deleted
ThumbSettled(r, st, res) ==
  /\ thumbRuns' = [thumbRuns EXCEPT ![r].st = st, ![r].proc = "exit", ![r].att = FALSE]
  /\ thumbTasks' = [thumbTasks EXCEPT ![thumbRuns[r].key] = 0]
  /\ reqs' = Settle("thumb", r, res)
  /\ lastThumbOk' =
       [a \in ThumbArgs |->
          IF IsOk(res) /\ thumbRuns[r].key[1] = fileVer
             /\ \E i \in Awaiting("thumb", r) : Live[i].arg = a /\ ~Live[i].evicted
            THEN res ELSE lastThumbOk[a]]

\* 'end' event
ThumbEnd(r) ==
  /\ thumbRuns[r].st = "pending"
  /\ thumbRuns[r].proc = "open"
  /\ thumbDisk' = IF thumbRuns[r].att THEN [thumbDisk EXCEPT ![thumbRuns[r].key] = "full"]
                                      ELSE thumbDisk
  /\ ThumbSettled(r, "ok", Res("path", thumbRuns[r].key[1], thumbRuns[r].key[2]))
  /\ UNCHANGED thumbFrame

\* 'error' event
ThumbError(r) ==
  /\ thumbRuns[r].st = "pending"
  /\ thumbRuns[r].proc \in {"run", "open"}
  /\ ThumbSettled(r, "err", Res("err", 0, NoTag))
  /\ UNCHANGED thumbDisk
  /\ UNCHANGED thumbFrame

\* the 10 s timer fires: the subprocess is killed and the task rejected
ThumbTimeout(r) ==
  /\ thumbRuns[r].st = "pending"
  /\ thumbRuns[r].proc \in {"run", "open"}
  /\ ThumbSettled(r, "timeout", Res("timeout", 0, NoTag))
  /\ UNCHANGED thumbDisk
  /\ UNCHANGED thumbFrame

\* ------------------------------------------ get-cached-extracted-audio
NoFiles == [i \in Tracks |-> "absent"]

\* the cache directory of a key loses every file; subprocesses that have
\* one of them open keep writing to the unlinked file
cleanupDisk(disk, key) == [disk EXCEPT ![key] = NoFiles]
cleanupRuns(runs, key) ==
  [r \in DOMAIN runs |->
     IF runs[r].key = key THEN [runs[r] EXCEPT !.att = [i \in Tracks |-> FALSE]]
                          ELSE runs[r]]

\* checkExisting without the size test
checkExistingAnySize(disk, key, expected) ==
  \A i \in 1..expected : disk[key][i] # "absent"

\* every expected track file exists with size > 0
checkExisting(disk, key, expected) ==
  \A i \in 1..expected : disk[key][i] \in {"part", "full"}

audioFrame == << scope, fileVer, numAudio, metadataMemoryCache, metaDisk, thumbDisk, metaTasks,
                 thumbTasks, metaRuns, thumbRuns, nreq, lastMetaOk, lastThumbOk >>

NewAudioRun(key, force) ==
  [key |-> key, force |-> force, ph |-> "probing", expected |-> 0,
   trk |-> [i \in Tracks |-> "idle"], att |-> [i \in Tracks |-> FALSE],
   completed |-> 0, hasError |-> FALSE]

GetCachedExtractedAudio(forceRefresh) ==
  /\ LET cacheDir == computeAudioCacheDir(fileVer)
         disk1 == IF forceRefresh THEN cleanupDisk(audioDisk, cacheDir) ELSE audioDisk
         runs1 == IF forceRefresh THEN cleanupRuns(audioRuns, cacheDir) ELSE audioRuns
         task  == IF forceRefresh THEN 0 ELSE audioExtractTasks[cacheDir]
     IN
     /\ audioDisk' = disk1
     /\ IF task # 0
          THEN /\ Arrive(NewReq("audio", NoArg, forceRefresh, task,
                                              NoRes, FALSE, NoRes))
               /\ audioRuns' = runs1
               /\ UNCHANGED << audioExtractTasks, audioDir >>
          ELSE /\ RunCount < MaxRuns
               /\ audioRuns' = Append(runs1, NewAudioRun(cacheDir, forceRefresh))
               /\ audioDir' = [audioDir EXCEPT ![cacheDir] = TRUE]
               /\ audioExtractTasks' = [audioExtractTasks EXCEPT ![cacheDir] = Len(audioRuns) + 1]
               /\ Arrive(NewReq("audio", NoArg, forceRefresh, Len(audioRuns) + 1,
                                              NoRes, TRUE, NoRes))
  /\ UNCHANGED << scope, fileVer, numAudio, metadataMemoryCache, metaDisk, thumbDisk, metaTasks,
                  thumbTasks, metaRuns, thumbRuns, lastMetaOk, lastThumbOk >>

\* ffprobe of the extraction task failed: catch (cleanupCache, rethrow), finally
AudioProbeFail(r) ==
  /\ audioRuns[r].ph = "probing"
  /\ LET key == audioRuns[r].key IN
     /\ audioDisk' = cleanupDisk(audioDisk, key)
     /\ audioRuns' = [cleanupRuns(audioRuns, key) EXCEPT ![r].ph = "err"]
     /\ audioExtractTasks' = [audioExtractTasks EXCEPT ![key] = 0]
     /\ reqs' = Settle("audio", r, Res("err", 0, NoTag))
  /\ UNCHANGED audioDir
  /\ UNCHANGED audioFrame

\* ffprobe of the extraction task succeeded: the task returns [] or the
\* existing files, or starts one ffmpeg per audio stream and returns the
\* promise of their completion; in each case the finally block deletes the
\* entry of the key as the return statement completes
AudioProbeOk(r) ==
  /\ audioRuns[r].ph = "probing"
  /\ LET key == audioRuns[r].key
         expected == numAudio
     IN
     /\ audioExtractTasks' = [audioExtractTasks EXCEPT ![key] = 0]
     /\ IF expected <= 0
          THEN /\ audioRuns' = [audioRuns EXCEPT ![r].ph = "empty"]
               /\ reqs' = Settle("audio", r, Res("empty", key, NoTag))
               /\ UNCHANGED << audioDisk, audioDir >>
        ELSE IF checkExisting(audioDisk, key, expected) /\ ~audioRuns[r].force
          THEN /\ audioRuns' = [audioRuns EXCEPT ![r].ph = "ok", ![r].expected = expected]
               /\ reqs' = Settle("audio", r, Res("files", key, NoTag))
               /\ UNCHANGED << audioDisk, audioDir >>
        ELSE /\ audioDisk' = cleanupDisk(audioDisk, key)
             /\ audioDir' = [audioDir EXCEPT ![key] = TRUE]
             /\ audioRuns' = [cleanupRuns(audioRuns, key) EXCEPT
                                ![r].ph = "extracting", ![r].expected = expected,
                                ![r].trk = [i \in Tracks |-> IF i <= expected THEN "run" ELSE "idle"]]
             /\ UNCHANGED reqs
  /\ UNCHANGED audioFrame

\* the ffmpeg subprocess of a track opens (creates or truncates) its output
TrackCreateFile(r, i) ==
  /\ audioRuns[r].trk[i] = "run"
  /\ audioDir[audioRuns[r].key]
  /\ audioRuns' = [audioRuns EXCEPT ![r].trk[i] = "open", ![r].att[i] = TRUE]
  /\ \E c \in {"empty", "part"} : audioDisk' = [audioDisk EXCEPT ![audioRuns[r].key][i] = c]
  /\ UNCHANGED << audioDir, audioExtractTasks, reqs >>
  /\ UNCHANGED audioFrame

\* 'end' event of a track
TrackEnd(r, i) ==
  /\ audioRuns[r].trk[i] = "open"
  /\ LET run == audioRuns[r]
         key == run.key
         disk1 == IF run.att[i] THEN [audioDisk EXCEPT ![key][i] = "full"] ELSE audioDisk
         last == run.completed + 1 = run.expected /\ ~run.hasError
         allValid == checkExisting(disk1, key, run.expected)
         run1 == [run EXCEPT !.trk[i] = "end", !.att[i] = FALSE,
                             !.completed = run.completed + 1]
     IN
     IF ~last
       THEN /\ audioDisk' = disk1
            /\ audioRuns' = [audioRuns EXCEPT ![r] = run1]
            /\ UNCHANGED reqs
     ELSE IF allValid
       THEN /\ audioDisk' = disk1
            /\ audioRuns' = [audioRuns EXCEPT ![r] = [run1 EXCEPT !.ph = "ok"]]
            /\ reqs' = Settle("audio", r, Res("files", key, NoTag))
     ELSE /\ audioDisk' = cleanupDisk(disk1, key)
          /\ audioRuns' = cleanupRuns([audioRuns EXCEPT ![r] = [run1 EXCEPT !.ph = "err"]], key)
          /\ reqs' = Settle("audio", r, Res("err", 0, NoTag))
  /\ UNCHANGED << audioDir, audioExtractTasks >>
  /\ UNCHANGED audioFrame

\* 'error' event of a track: the subprocess failed, or the 30 s timer of the
\* track killed it (cmd.kill makes the command emit 'error')
TrackError(r, i) ==
  /\ audioRuns[r].trk[i] \in {"run", "open"}
  /\ LET run == audioRuns[r]
         key == run.key
         run1 == [run EXCEPT !.trk[i] = "err", !.att[i] = FALSE]
     IN
     IF run.hasError
       THEN /\ audioRuns' = [audioRuns EXCEPT ![r] = run1]
            /\ UNCHANGED << audioDisk, reqs >>
       ELSE /\ audioDisk' = cleanupDisk(audioDisk, key)
            /\ audioRuns' = cleanupRuns([audioRuns EXCEPT ![r] =
                                           [run1 EXCEPT !.hasError = TRUE, !.ph = "err"]], key)
            /\ reqs' = Settle("audio", r, Res("err", 0, NoTag))
  /\ UNCHANGED << audioDir, audioExtractTasks >>
  /\ UNCHANGED audioFrame

\* ---------------------------------------------------------- clear-cache
ClearCache ==
  /\ metaDisk' = [k \in Vers |-> 0]
  /\ thumbDisk' = [k \in ThumbKeys |-> "absent"]
  /\ thumbRuns' = [r \in DOMAIN thumbRuns |-> [thumbRuns[r] EXCEPT !.att = FALSE]]
  /\ audioDir' = [k \in Vers |-> FALSE]
  /\ audioDisk' = [k \in Vers |-> NoFiles]
  /\ audioRuns' = [r \in DOMAIN audioRuns |->
                     [audioRuns[r] EXCEPT !.att = [i \in Tracks |-> FALSE]]]
  /\ metadataMemoryCache' = 0
  /\ metaTasks' = [k \in Vers |-> 0]
  /\ thumbTasks' = [k \in ThumbKeys |-> 0]
  /\ audioExtractTasks' = [k \in Vers |-> 0]
  /\ lastMetaOk' = NoRes
  /\ lastThumbOk' = [a \in ThumbArgs |-> NoRes]
  /\ reqs' = Evict(reqs, {"meta", "thumb", "audio"}, Vers)
  /\ UNCHANGED << scope, fileVer, numAudio, metaRuns, nreq >>
  /\ UNCHANGED notCache

\* -------------------------------------------------------- specification
\* The three caches share no state: clear-cache and the source file are all
\* they have in common.  A behaviour exercises the handlers of one cache
\* (scope), together with clear-cache and changes of the source file.
CacheKinds == {"meta", "thumb", "audio"}

CacheInit ==
  /\ scope \in CacheKinds
  /\ fileVer = 1
  /\ numAudio \in {0, NumTracks}
  /\ scope # "audio" => numAudio = NumTracks
  /\ metadataMemoryCache = 0
  /\ metaDisk = [k \in Vers |-> 0]
  /\ thumbDisk = [k \in ThumbKeys |-> "absent"]
  /\ audioDir = [k \in Vers |-> FALSE]
  /\ audioDisk = [k \in Vers |-> NoFiles]
  /\ metaTasks = [k \in Vers |-> 0]
  /\ thumbTasks = [k \in ThumbKeys |-> 0]
  /\ audioExtractTasks = [k \in Vers |-> 0]
  /\ metaRuns = << >>
  /\ thumbRuns = << >>
  /\ audioRuns = << >>
  /\ reqs = << >>
  /\ nreq = 0
  /\ lastMetaOk = NoRes
  /\ lastThumbOk = [a \in ThumbArgs |-> NoRes]

\* the IPC calls of the exercised cache
MetaCall == scope = "meta" /\ GetCachedMetadata /\ UNCHANGED notCache
ThumbCall ==
  /\ scope = "thumb"
  /\ \E a \in ThumbArgs : GetCachedThumbnail(a)
  /\ UNCHANGED notCache
AudioCall ==
  /\ scope = "audio"
  /\ \E f \in BOOLEAN : GetCachedExtractedAudio(f)
  /\ UNCHANGED notCache

MetaStep ==
  /\ \E r \in DOMAIN metaRuns : MetaProbeOk(r) \/ MetaProbeFail(r)
  /\ UNCHANGED notCache
ThumbStep ==
  /\ \E r \in DOMAIN thumbRuns :
        ThumbCreateFile(r) \/ ThumbEnd(r) \/ ThumbError(r) \/ ThumbTimeout(r)
  /\ UNCHANGED notCache
AudioStep ==
  /\ \E r \in DOMAIN audioRuns :
        \/ AudioProbeOk(r) \/ AudioProbeFail(r)
        \/ \E i \in Tracks : TrackCreateFile(r, i) \/ TrackEnd(r, i)
                             \/ TrackError(r, i)
  /\ UNCHANGED notCache

CacheNext ==
  \/ SourceChange
  \/ ClearCache
  \/ MetaCall
  \/ ThumbCall
  \/ AudioCall
  \/ MetaStep
  \/ ThumbStep
  \/ AudioStep

\* ------------------------------------------------------------ export-video
\* One renderer session (one sender id).  activeExports and canceledExports
\* are keyed by that id, so each is one bit here.  A subprocess is followed
\* from run() to the delivery of its 'end' or 'error' event: "starting" is
\* after run() and before the 'start' event, "ending" / "failing" / "killed"
\* are an exited process whose event is not delivered yet.  The encoder is
\* opaque: its output size, its stderr and its error message are inputs.
\* The session's exports follow one another (the next call comes after the
\* previous one returned); the first-pass log is "small" below 1024 bytes.

MaxExports == 2

maxAttempts == 3
minBitrateKbps == 100
audioBitrateKbps == 128
defaultTargetMB == 10

Max(a, b) == IF a >= b THEN a ELSE b

\* targetSizeMB and duration pairs: a 10 MB default target over 10 s, and a
\* 1 MB target over 600 s whose bitrate falls to the floor
Budgets == { << U, 10 >>, << 1, 600 >> }

ExportArgs ==
  { [quality |-> "full", outputType |-> "video", compressionQuality |-> "fast",
     ext |-> ".mp4", targetSizeMB |-> U, duration |-> 10],
    [quality |-> "compressed", outputType |-> "mp3", compressionQuality |-> "fast",
     ext |-> ".mp3", targetSizeMB |-> U, duration |-> 10] }
  \cup
  { [quality |-> "compressed", outputType |-> "video", compressionQuality |-> cq,
     ext |-> x, targetSizeMB |-> b[1], duration |-> b[2]] :
       cq \in {"fast", "standard", "high"}, x \in {".mp4", ".avi"}, b \in Budgets }

NoExportArgs == [quality |-> "full", outputType |-> "video", compressionQuality |-> "fast",
                 ext |-> ".mp4", targetSizeMB |-> U, duration |-> 10]

NoEnc == [kind |-> "none", mode |-> "none", pass |-> 0, kbps |-> 0]

\* the dispatch without its test of the output type
SizeTargetedByQuality(a) == a.quality = "compressed"

SizeTargeted(a) == ~(a.outputType = "mp3" \/ a.quality # "compressed")

targetBytes(a) ==
  (IF Falsy(a.targetSizeMB) THEN defaultTargetMB ELSE a.targetSizeMB) * 1024 * 1024

\* Math.floor(targetBytes * 0.95 * 8)
targetBits(a) == Max(1, (targetBytes(a) * 76) \div 10)

\* Math.floor(targetBits * (1 - 0.02)), written so that no product leaves 32 bits
effectiveTargetBits(a) == targetBits(a) - ((targetBits(a) * 2 + 99) \div 100)

initialBitrate(a) ==
  Max(minBitrateKbps,
      (effectiveTargetBits(a) \div (a.duration * 1000)) - audioBitrateKbps)

\* the reduction without its floor of 100 kbps
reduceBitrateUnbounded(a, kbps) ==
  (kbps * (IF a.compressionQuality = "high" THEN 80 ELSE 85)) \div 100

\* Math.max(100, Math.floor(videoBitrateKbps * 0.80)) and the same with 0.85
reduceBitrate(a, kbps) ==
  Max(minBitrateKbps,
      (kbps * (IF a.compressionQuality = "high" THEN 80 ELSE 85)) \div 100)

\* sizes the encoder can give a finished file, around the target
OutSizes(a) ==
  IF SizeTargeted(a) THEN { targetBytes(a), targetBytes(a) + 1, 2 * targetBytes(a) }
                     ELSE { targetBytes(a) }

\* a deterministic encoder: the same mode at the same bitrate gives the same size
EncoderGives(s) ==
  \A i \in 1..Len(encLog) :
     (encLog[i].mode = enc.mode /\ encLog[i].kbps = enc.kbps) => s = encLog[i].size

\* what an interrupted encoder leaves at its output path
PartialOut(cur) == { cur, 1 }
PartialStats(cur) == { cur, "small" }

\* encodeOnce(videoBitrateKbps, useCRF) up to .run(); sf is the state of the
\* statistics files that the caller leaves
StartOnce(kbps, crf, sf) ==
  /\ enc' = [kind |-> "once",
             mode |-> IF ~SizeTargeted(eArgs) THEN "plain"
                      ELSE IF crf /\ eArgs.ext # ".avi" THEN "crf" ELSE "abr",
             pass |-> 0, kbps |-> kbps]
  /\ proc' = "starting"
  /\ nEnc' = nEnc + 1
  /\ ePc' = "enc"
  /\ result' = "none"
  /\ statFiles' = sf
  /\ UNCHANGED leaked

\* encodeTwoPass(videoBitrateKbps) up to the first pass's .run(); the pass-log
\* prefix carries Date.now(), so the files of an earlier encode are other files
StartTwoPass(kbps, sf) ==
  IF eArgs.ext = ".avi"
  THEN StartOnce(kbps, FALSE, sf)
  ELSE /\ enc' = [kind |-> "two", mode |-> "2pass", pass |-> 1, kbps |-> kbps]
       /\ proc' = "starting"
       /\ nEnc' = nEnc + 1
       /\ ePc' = "enc"
       /\ result' = "none"
       /\ statFiles' = "absent"
       /\ leaked' = (leaked \/ sf # "absent")

\* export-video returns res (or throws, res = "error")
Finish(res, sf, out) ==
  /\ ePc' = "done"
  /\ result' = res
  /\ proc' = "none"
  /\ statFiles' = sf
  /\ outSize' = out
  /\ UNCHANGED << enc, nEnc, leaked, videoBitrateKbps, attempts, useCRF >>

ShouldRetryEq(size, n, target) == size > target /\ n <= maxAttempts
ShouldRetry(size, n, target) == size > target /\ n < maxAttempts

RetrySkip(sf) ==
  LET kbps == reduceBitrate(eArgs, videoBitrateKbps)
      crf  == IF useCRF /\ attempts + 1 = 1 THEN FALSE ELSE useCRF
  IN /\ attempts' = attempts + 2
     /\ videoBitrateKbps' = kbps
     /\ useCRF' = crf
     /\ outSize' = -1
     /\ IF eArgs.compressionQuality = "high"
        THEN StartTwoPass(kbps, sf)
        ELSE StartOnce(kbps, crf, sf)
\* one turn of the while loop that leaves useCRF as it is
RetryKeepCRF(sf) ==
  LET kbps == reduceBitrate(eArgs, videoBitrateKbps)
  IN /\ attempts' = attempts + 1
     /\ videoBitrateKbps' = kbps
     /\ useCRF' = useCRF
     /\ outSize' = -1
     /\ IF eArgs.compressionQuality = "high"
        THEN StartTwoPass(kbps, sf)
        ELSE StartOnce(kbps, useCRF, sf)

\* one turn of the while loop: lower the bitrate, unlink the output, encode again
Retry(sf) ==
  LET kbps == reduceBitrate(eArgs, videoBitrateKbps)
      crf  == IF useCRF /\ attempts + 1 = 1 THEN FALSE ELSE useCRF
  IN /\ attempts' = attempts + 1
     /\ videoBitrateKbps' = kbps
     /\ useCRF' = crf
     /\ outSize' = -1
     /\ IF eArgs.compressionQuality = "high"
        THEN StartTwoPass(kbps, sf)
        ELSE StartOnce(kbps, crf, sf)

\* the error message of the exited subprocess matches the kill pattern
KillMessage == proc \in {"signalled", "killed"}

\* what is remembered of a settled encode: its outcome, the pass it was in,
\* the event that settled it ('end', 'error', or the check after the 100 ms
\* wait), whether the error message matched the kill pattern, and the
\* first-pass log and the cancel flag as that handler found them

SettleRecord(outcome) ==
  [res  |-> outcome,
   kind |-> enc.kind,
   kw   |-> KillMessage,
   pass |-> enc.pass,
   ev   |-> IF ePc = "wait100" THEN "wait" ELSE IF proc = "ending" THEN "end" ELSE "error",
   log  |-> statFiles,
   flag |-> canceledExports]

SettledThrough(outcome, sf, out) ==
  /\ settles' = Append(settles, SettleRecord(outcome))
  /\ IF ~SizeTargeted(eArgs) THEN Finish(outcome, sf, out)
     ELSE IF outcome = "canceled" /\ attempts = 0 THEN Finish("canceled", sf, out)
     ELSE IF outcome = "error"
          THEN Finish(IF attempts = 0 THEN "error" ELSE "path", sf, out)
     ELSE IF out # -1 /\ ShouldRetry(out, attempts, targetBytes(eArgs))
          THEN Retry(sf)
          ELSE Finish("path", sf, out)
\* the continuation of export-video when the awaited encode settles with
\* outcome; sf and out are the statistics files and the output file as the
\* event handler left them
Settled(outcome, sf, out) ==
  /\ settles' = Append(settles, SettleRecord(outcome))
  /\ IF ~SizeTargeted(eArgs) THEN Finish(outcome, sf, out)
     ELSE IF outcome = "canceled" THEN Finish("canceled", sf, out)
     ELSE IF outcome = "error"
          THEN Finish(IF attempts = 0 THEN "error" ELSE "path", sf, out)
     ELSE IF out # -1 /\ ShouldRetry(out, attempts, targetBytes(eArgs))
          THEN Retry(sf)
          ELSE Finish("path", sf, out)

ExportVideo(a) ==
  /\ ePc \in {"idle", "done"}
  /\ nExports < MaxExports
  /\ nExports' = nExports + 1
  /\ ePc' = "probe"
  /\ eArgs' = a
  /\ videoBitrateKbps' = 0
  /\ attempts' = 0
  /\ useCRF' = FALSE
  /\ enc' = NoEnc
  /\ proc' = "none"
  /\ result' = "none"
  /\ encLog' = << >>
  /\ settles' = << >>
  /\ nEnc' = 0
  /\ gapCancel' = FALSE
  /\ runCancel' = 0
  /\ statFiles' = "absent"
  /\ leaked' = (leaked \/ statFiles # "absent")
  /\ UNCHANGED << activeExports, canceledExports, outSize >>

\* the stream count is known: dispatch on quality and tier
ExportProbed ==
  /\ ePc = "probe"
  /\ IF ~SizeTargeted(eArgs)
     THEN /\ StartOnce(0, FALSE, statFiles)
          /\ UNCHANGED << videoBitrateKbps, useCRF >>
     ELSE /\ videoBitrateKbps' = initialBitrate(eArgs)
          /\ IF eArgs.compressionQuality = "high"
             THEN /\ useCRF' = FALSE
                  /\ StartTwoPass(initialBitrate(eArgs), statFiles)
             ELSE /\ useCRF' = (eArgs.compressionQuality = "standard")
                  /\ StartOnce(initialBitrate(eArgs),
                               eArgs.compressionQuality = "standard", statFiles)
  /\ UNCHANGED << eArgs, attempts, activeExports, canceledExports, outSize, encLog,
                  settles, nExports, gapCancel, runCancel >>
  /\ UNCHANGED notExport

\* the 'start' event of any of the three commands
OnStart ==
  /\ ePc = "enc" /\ proc = "starting"
  /\ proc' = "running"
  /\ activeExports' = TRUE
  /\ UNCHANGED << ePc, eArgs, videoBitrateKbps, attempts, useCRF, enc, canceledExports,
                  outSize, statFiles, leaked, result, encLog, settles, nEnc, nExports,
                  gapCancel, runCancel >>
  /\ UNCHANGED notExport

\* the subprocess finishes its work and exits with code 0
ProcExit ==
  /\ ePc = "enc" /\ proc = "running"
  /\ proc' = "ending"
  /\ IF enc.pass = 1
     THEN /\ \E f \in {"absent", "small", "ok"} : statFiles' = f
          /\ UNCHANGED outSize
     ELSE /\ \E s \in OutSizes(eArgs) : EncoderGives(s) /\ outSize' = s
          /\ UNCHANGED statFiles
  /\ UNCHANGED << ePc, eArgs, videoBitrateKbps, attempts, useCRF, enc, activeExports,
                  canceledExports, leaked, result, encLog, settles, nEnc, nExports,
                  gapCancel, runCancel >>
  /\ UNCHANGED notExport

\* the subprocess cannot be spawned, or exits with an error of its own;
\* "signalled": its error message matches the kill pattern although no
\* cancel-export killed it
ProcFail ==
  /\ ePc = "enc" /\ proc \in {"starting", "running"}
  /\ \E p \in {"failing", "signalled"} : proc' = p
  /\ IF proc = "starting" THEN UNCHANGED << outSize, statFiles >>
     ELSE IF enc.pass = 1
     THEN /\ \E f \in PartialStats(statFiles) : statFiles' = f
          /\ UNCHANGED outSize
     ELSE /\ \E s \in PartialOut(outSize) : outSize' = s
          /\ UNCHANGED statFiles
  /\ UNCHANGED << ePc, eArgs, videoBitrateKbps, attempts, useCRF, enc, activeExports,
                  canceledExports, leaked, result, encLog, settles, nEnc, nExports,
                  gapCancel, runCancel >>
  /\ UNCHANGED notExport

LogAttempt == Append(encLog, [mode |-> enc.mode, kbps |-> enc.kbps, size |-> outSize])

\* the 'end' handlers of encodeOnce, of the first pass (with the code that
\* follows the awaited pass up to the 100 ms wait) and of the second pass
OnEnd ==
  /\ ePc = "enc" /\ proc = "ending"
  /\ activeExports' = FALSE
  /\ UNCHANGED << eArgs, canceledExports, nExports, gapCancel, runCancel >>
  /\ IF enc.pass = 1
     THEN /\ UNCHANGED encLog
          /\ IF statFiles = "absent" THEN Settled("error", statFiles, outSize)
             ELSE IF canceledExports THEN Settled("canceled", statFiles, outSize)
             ELSE /\ ePc' = "wait100"
                  /\ proc' = "none"
                  /\ UNCHANGED << videoBitrateKbps, attempts, useCRF, enc, outSize,
                                  statFiles, leaked, result, nEnc, settles >>
     ELSE /\ encLog' = LogAttempt
          /\ Settled("path", IF enc.pass = 2 THEN "absent" ELSE statFiles, outSize)
  /\ UNCHANGED notExport

AfterWaitLax ==
  /\ ePc = "wait100"
  /\ UNCHANGED << eArgs, activeExports, canceledExports, encLog, nExports,
                  gapCancel, runCancel >>
  /\ IF statFiles = "absent" THEN Settled("error", statFiles, outSize)
     ELSE /\ enc' = [enc EXCEPT !.pass = 2]
          /\ proc' = "starting"
          /\ ePc' = "enc"
          /\ UNCHANGED << videoBitrateKbps, attempts, useCRF, outSize, statFiles,
                          leaked, result, nEnc, settles >>
  /\ UNCHANGED notExport
AfterWaitStall ==
  /\ ePc = "wait100"
  /\ UNCHANGED << eArgs, activeExports, canceledExports, encLog, nExports,
                  gapCancel, runCancel >>
  /\ IF statFiles = "absent" THEN Settled("error", statFiles, outSize)
     ELSE IF statFiles = "small" THEN UNCHANGED exportVars
     ELSE /\ enc' = [enc EXCEPT !.pass = 2]
          /\ proc' = "starting"
          /\ ePc' = "enc"
          /\ UNCHANGED << videoBitrateKbps, attempts, useCRF, outSize, statFiles,
                          leaked, result, nEnc, settles >>
  /\ UNCHANGED notExport
\* after the 100 ms wait: validate the first-pass log, then run the second pass
AfterWait ==
  /\ ePc = "wait100"
  /\ UNCHANGED << eArgs, activeExports, canceledExports, encLog, nExports,
                  gapCancel, runCancel >>
  /\ IF statFiles = "absent" THEN Settled("error", statFiles, outSize)
     ELSE IF statFiles = "small" THEN Settled("error", "absent", outSize)
     ELSE /\ enc' = [enc EXCEPT !.pass = 2]
          /\ proc' = "starting"
          /\ ePc' = "enc"
          /\ UNCHANGED << videoBitrateKbps, attempts, useCRF, outSize, statFiles,
                          leaked, result, nEnc, settles >>
  /\ UNCHANGED notExport

\* canceledExports.has(senderId) alone
WasCanceledFlagOnly(flag, kw) == flag

\* canceledExports.has(senderId) || /kill|SIGKILL|terminated|canceled/i.test(msg)
WasCanceled(flag, kw) == flag \/ kw

\* the 'error' handlers; kw: the message matches /kill|SIGKILL|terminated|canceled/i,
\* aac: stderr matches the AAC queue warning and none of error|failed|invalid
OnError(kw, aac) ==
  /\ ePc = "enc" /\ proc \in {"failing", "signalled", "killed"}
  /\ kw = KillMessage
  /\ aac => enc.pass = 2
  /\ activeExports' = FALSE
  /\ UNCHANGED << eArgs, nExports, gapCancel, runCancel >>
  /\ LET wasCanceled == WasCanceled(canceledExports, kw)
     IN IF enc.pass = 2 /\ aac /\ outSize > 0
        THEN /\ encLog' = LogAttempt
             /\ UNCHANGED canceledExports
             /\ Settled("path", "absent", outSize)
        ELSE /\ UNCHANGED encLog
             /\ canceledExports' = (canceledExports /\ ~wasCanceled)
             /\ Settled(IF wasCanceled THEN "canceled" ELSE "error",
                        IF enc.pass = 2 THEN "absent" ELSE statFiles, outSize)

\* between the 'end' of the first pass and the 'start' of the second
BetweenPasses ==
  enc.kind = "two" /\ (ePc = "wait100" \/ (ePc = "enc" /\ enc.pass = 2 /\ proc = "starting"))

CancelExport ==
  /\ gapCancel' = (gapCancel \/ BetweenPasses)
  /\ IF activeExports
     THEN /\ canceledExports' = TRUE
          /\ activeExports' = FALSE
          /\ IF proc = "running"
             THEN /\ proc' = "killed"
                  /\ runCancel' = IF runCancel = 0 THEN nEnc ELSE runCancel
                  /\ IF enc.pass = 1
                     THEN /\ \E f \in PartialStats(statFiles) : statFiles' = f
                          /\ UNCHANGED outSize
                     ELSE /\ \E s \in PartialOut(outSize) : outSize' = s
                          /\ UNCHANGED statFiles
             ELSE UNCHANGED << proc, runCancel, outSize, statFiles >>
     ELSE UNCHANGED << canceledExports, activeExports, proc, runCancel, outSize, statFiles >>
  /\ UNCHANGED << ePc, eArgs, videoBitrateKbps, attempts, useCRF, enc, leaked, result,
                  encLog, settles, nEnc, nExports >>
  /\ UNCHANGED notExport

ExportInit ==
  /\ ePc = "idle"
  /\ eArgs = NoExportArgs
  /\ videoBitrateKbps = 0
  /\ attempts = 0
  /\ useCRF = FALSE
  /\ enc = NoEnc
  /\ proc = "none"
  /\ activeExports = FALSE
  /\ canceledExports = FALSE
  /\ outSize = -1
  /\ statFiles = "absent"
  /\ leaked = FALSE
  /\ result = "none"
  /\ encLog = << >>
  /\ settles = << >>
  /\ nEnc = 0
  /\ nExports = 0
  /\ gapCancel = FALSE
  /\ runCancel = 0

ExportCall ==
  /\ \E a \in ExportArgs : ExportVideo(a)
  /\ UNCHANGED notExport

ErrorEvent ==
  /\ \E kw \in BOOLEAN, aac \in BOOLEAN : OnError(kw, aac)
  /\ UNCHANGED notExport

ExportNext ==
  \/ ExportCall
  \/ ExportProbed
  \/ OnStart
  \/ ProcExit
  \/ ProcFail
  \/ OnEnd
  \/ AfterWait
  \/ ErrorEvent
  \/ CancelExport

\* the caches stand still while an export is followed
CacheIdle == CacheInit /\ scope = "meta"

\* ------------------------------------------------------------ folder watcher
\* One watched root and one media path under it.  Every watch-folder call
\* makes a watcher with its own existingFiles set and debounceTimers map
\* (closure variables); unwatch-folder closes the watcher.  Raw events reach
\* only the live watcher.  A burst is a run of raw events each of which finds
\* the previous event's 500 ms timer still pending.  A timer set while a
\* callback waits its 200 ms cannot fire before that callback resumes.

MaxWatchers == 2
MaxBursts == 3
MaxFileSize == 2

debounceMs == 500
stabilityMs == 200

Watchers == 1..MaxWatchers
NoCheck == [burst |-> 0, size |-> 0]

\* the record of a notification; live: the root had a watcher when it was
\* sent; root: the watcher the root had last been given
Note(kind, g, b, s1, s2) ==
  [kind |-> kind, gen |-> g, burst |-> b, s1 |-> s1, s2 |-> s2, live |-> folderWatchers,
   root |-> wGen]

\* the record of a finished timer callback: whether the path was in
\* existingFiles when the timer fired, the sizes it saw (-1: no file, U: not
\* looked at), what it decided to report, whether that was sent, and whether
\* the path is in existingFiles as it returns
Handled(g, b, tracked, s1, s2, kind, known) ==
  [gen |-> g, burst |-> b, tracked |-> tracked, s1 |-> s1, s2 |-> s2, kind |-> kind,
   sent |-> (kind # "none" /\ mainWindow), known |-> known]

\* if (mainWindow) mainWindow.webContents.send(kind, ...)
Send(kind, g, b, s1, s2) ==
  IF mainWindow THEN Append(notes, Note(kind, g, b, s1, s2)) ELSE notes

\* the file is created, written, truncated or deleted by some other program
FsChange ==
  /\ \E s \in (-1)..MaxFileSize : s # fileSize /\ fileSize' = s
  /\ UNCHANGED << folderWatchers, wGen, existingFiles, debounceTimers, sizeCheck,
                  nBursts, notes, handled, mainWindow, scanned >>
  /\ UNCHANGED notWatch

WatchFolder ==
  /\ ~folderWatchers
  /\ wGen < MaxWatchers
  /\ wGen' = wGen + 1
  /\ folderWatchers' = TRUE
  /\ existingFiles' = [existingFiles EXCEPT ![wGen + 1] = (fileSize # -1)]
  /\ scanned' = [scanned EXCEPT ![wGen + 1] = (fileSize # -1)]
  /\ UNCHANGED << fileSize, debounceTimers, sizeCheck, nBursts, notes, handled, mainWindow >>
  /\ UNCHANGED notWatch

UnwatchFolder ==
  /\ folderWatchers
  /\ folderWatchers' = FALSE
  /\ UNCHANGED << wGen, fileSize, existingFiles, debounceTimers, sizeCheck, nBursts,
                  notes, handled, mainWindow, scanned >>
  /\ UNCHANGED notWatch

\* the window is closed; on darwin the application stays
WindowClosed ==
  /\ mainWindow
  /\ mainWindow' = FALSE
  /\ UNCHANGED << folderWatchers, wGen, fileSize, existingFiles, debounceTimers, sizeCheck,
                  nBursts, notes, handled, scanned >>
  /\ UNCHANGED notWatch

\* app.on('activate'): the window is made again
Activate ==
  /\ ~mainWindow
  /\ mainWindow' = TRUE
  /\ UNCHANGED << folderWatchers, wGen, fileSize, existingFiles, debounceTimers, sizeCheck,
                  nBursts, notes, handled, scanned >>
  /\ UNCHANGED notWatch

\* the fs.watch listener, for a raw event on the media path
OnFsEvent ==
  /\ folderWatchers
  /\ IF debounceTimers[wGen] # 0
     THEN UNCHANGED << debounceTimers, nBursts >>
     ELSE /\ nBursts < MaxBursts
          /\ nBursts' = nBursts + 1
          /\ debounceTimers' = [debounceTimers EXCEPT ![wGen] = nBursts + 1]
  /\ UNCHANGED << folderWatchers, wGen, fileSize, existingFiles, sizeCheck, notes, handled,
                  mainWindow, scanned >>
  /\ UNCHANGED notWatch

\* stat.size === 0 never holds
NeverEmpty(size) == FALSE

\* stat.size === 0
EmptyFile(size) == size = 0

\* the timer callback up to its await
OnTimer(g) ==
  /\ debounceTimers[g] # 0
  /\ sizeCheck[g] = NoCheck
  /\ debounceTimers' = [debounceTimers EXCEPT ![g] = 0]
  /\ LET b == debounceTimers[g]
         fileExists == fileSize # -1
         wasTracked == existingFiles[g]
     IN IF fileExists /\ ~wasTracked
        THEN IF EmptyFile(fileSize)
             THEN /\ handled' = Append(handled,
                                       Handled(g, b, wasTracked, fileSize, U, "none", wasTracked))
                  /\ UNCHANGED << sizeCheck, existingFiles, notes >>
             ELSE /\ sizeCheck' = [sizeCheck EXCEPT ![g] = [burst |-> b, size |-> fileSize]]
                  /\ UNCHANGED << handled, existingFiles, notes >>
        ELSE IF ~fileExists /\ wasTracked
        THEN /\ existingFiles' = [existingFiles EXCEPT ![g] = FALSE]
             /\ notes' = Send("file-removed", g, b, U, U)
             /\ handled' = Append(handled,
                                  Handled(g, b, wasTracked, fileSize, U, "file-removed", FALSE))
             /\ UNCHANGED sizeCheck
        ELSE /\ handled' = Append(handled,
                                  Handled(g, b, wasTracked, fileSize, U, "none", wasTracked))
             /\ UNCHANGED << sizeCheck, existingFiles, notes >>
  /\ UNCHANGED << folderWatchers, wGen, fileSize, nBursts, mainWindow, scanned >>

SameSizeOrMore(a, b) == a >= b
SameSize(a, b) == a = b

\* the timer callback after its 200 ms wait
OnStable(g) ==
  /\ sizeCheck[g] # NoCheck
  /\ sizeCheck' = [sizeCheck EXCEPT ![g] = NoCheck]
  /\ LET b == sizeCheck[g].burst
         initialSize == sizeCheck[g].size
     IN IF fileSize # -1 /\ SameSize(fileSize, initialSize)
        THEN /\ existingFiles' = [existingFiles EXCEPT ![g] = TRUE]
             /\ notes' = Send("file-added", g, b, initialSize, fileSize)
             /\ handled' = Append(handled,
                                  Handled(g, b, FALSE, initialSize, fileSize, "file-added", TRUE))
        ELSE /\ handled' = Append(handled,
                                  Handled(g, b, FALSE, initialSize, fileSize, "none", FALSE))
             /\ UNCHANGED << existingFiles, notes >>
  /\ UNCHANGED << folderWatchers, wGen, fileSize, debounceTimers, nBursts, mainWindow, scanned >>

TimerFires ==
  /\ \E g \in Watchers : OnTimer(g)
  /\ UNCHANGED notWatch

SizeRechecked ==
  /\ \E g \in Watchers : OnStable(g)
  /\ UNCHANGED notWatch

WatchInit ==
  /\ folderWatchers = FALSE
  /\ wGen = 0
  /\ fileSize = -1
  /\ existingFiles = [g \in Watchers |-> FALSE]
  /\ debounceTimers = [g \in Watchers |-> 0]
  /\ sizeCheck = [g \in Watchers |-> NoCheck]
  /\ nBursts = 0
  /\ notes = << >>
  /\ handled = << >>
  /\ mainWindow = TRUE
  /\ scanned = [g \in Watchers |-> FALSE]

WatchNext ==
  \/ FsChange
  \/ WatchFolder
  \/ UnwatchFolder
  \/ WindowClosed
  \/ Activate
  \/ OnFsEvent
  \/ TimerFires
  \/ SizeRechecked

\* ------------------------------------------------------------ content hash

ChunkSize == 1      \* CHUNK_SIZE, 64 * 1024 in the source
MaxFileLen == 2
MaxHashCalls == 2
MaxTouches == 1

Paths == { "a", "b" }
Bytes == { 49, 50 }
Null == -2
\* metadata.format.duration of a file; 0 when the container gives none
FileDurations == { 0, 12 }
\* the duration argument: omitted, null or a number
DurationArgs == { U, Null, 0, 12 }

Contents == UNION { [1..n -> Bytes] : n \in 0..MaxFileLen }
Files == [bytes : Contents, duration : FileDurations]
NoCall == [stage |-> "none"]

Min(a, b) == IF a <= b THEN a ELSE b

RECURSIVE Digits(_)
Digits(n) == IF n < 10 THEN << 48 + n >> ELSE Digits(n \div 10) \o << 48 + (n % 10) >>

\* String(x) as the bytes hash.update receives
StringOf(x) == IF x = Null THEN << 110, 117, 108, 108 >> ELSE Digits(x)

\* duration || 0
OrZero(duration) == IF duration = Null \/ duration = 0 THEN 0 ELSE duration

\* the three hash.update calls without the || 0
HashInputRaw(bytes, size, duration) ==
  bytes \o StringOf(size) \o StringOf(duration)

\* the three hash.update calls
HashInput(bytes, size, duration) ==
  bytes \o StringOf(size) \o StringOf(OrZero(duration))

\* sha256 taken as collision free: the digest stands for the stream it was fed
digest(stream) == [sha256 |-> stream]

\* buffer.slice(0, bytesRead)
FirstChunk(f) == SubSeq(f.bytes, 1, Min(ChunkSize, Len(f.bytes)))

calculatePartialHash(f, size, duration) ==
  digest(HashInput(FirstChunk(f), size, duration))

\* getVideoDuration: null on a probe error or a missing duration
getVideoDuration(f) == { Null } \cup (IF f.duration # 0 THEN { f.duration } ELSE {})

\* getClipHash up to its first await: statSync, then the probe if no duration
\* was passed
GetClipHash(p, duration) ==
  /\ hCall = NoCall
  /\ nHash < MaxHashCalls
  /\ nHash' = nHash + 1
  /\ hCall' = [stage |-> IF duration = U THEN "probe" ELSE "read",
               path |-> p, fileSize |-> Len(hFiles[p].bytes), duration |-> duration,
               lookup |-> duration = U]
  /\ UNCHANGED << hFiles, hashLog, nTouch >>

\* the ffprobe callback
DurationProbed ==
  /\ hCall.stage = "probe"
  /\ \E dur \in getVideoDuration(hFiles[hCall.path]) :
        hCall' = [hCall EXCEPT !.stage = "read", !.duration = dur]
  /\ UNCHANGED << hFiles, hashLog, nHash, nTouch >>

\* the fs.read callback: the digest is resolved
HashRead ==
  /\ hCall.stage = "read"
  /\ LET f == hFiles[hCall.path]
     IN hashLog' = Append(hashLog,
                     [path |-> hCall.path, bytes |-> FirstChunk(f),
                      fileSize |-> hCall.fileSize, duration |-> hCall.duration,
                      lookup |-> hCall.lookup,
                      hash |-> calculatePartialHash(f, hCall.fileSize, hCall.duration)])
  /\ hCall' = NoCall
  /\ UNCHANGED << hFiles, nHash, nTouch >>

\* another process rewrites a file
Touch(p) ==
  /\ nTouch < MaxTouches
  /\ nTouch' = nTouch + 1
  /\ \E f \in Files \ { hFiles[p] } : hFiles' = [hFiles EXCEPT ![p] = f]
  /\ UNCHANGED << hCall, hashLog, nHash >>

HashIdle ==
  /\ hFiles = [p \in Paths |-> [bytes |-> << >>, duration |-> 0]]
  /\ hCall = NoCall
  /\ hashLog = << >>
  /\ nHash = 0
  /\ nTouch = 0

HashInit ==
  /\ hFiles \in [Paths -> Files]
  /\ hCall = NoCall
  /\ hashLog = << >>
  /\ nHash = 0
  /\ nTouch = 0

HashCall == (\E p \in Paths, d \in DurationArgs : GetClipHash(p, d)) /\ UNCHANGED notHash
HashProbed == DurationProbed /\ UNCHANGED notHash
HashResolved == HashRead /\ UNCHANGED notHash
FileRewritten == (\E p \in Paths : Touch(p)) /\ UNCHANGED notHash

HashNext ==
  \/ HashCall
  \/ HashProbed
  \/ HashResolved
  \/ FileRewritten

\* ------------------------------------------------------------ clips store

Hashes == { "h1", "h2" }
NoRow == [none |-> TRUE]
\* the JSON text of an audioTracks array, by its number of entries
TrackJson == { 1 }
\* the null that getClipEdits returns
NullEdits == [null |-> TRUE]

\* the columns of a row that the operations read or write
Rows == [filepath : Paths, isFavorite : {0, 1}, trimStart : {Null, 0},
         trimEnd : {Null, 2}, audioTracks : {Null} \cup TrackJson]

\* a ClipEdits argument: every field is optional
EditArgs == [trimStart : {U, 0}, trimEnd : {U, 2}, audioTracks : {U} \cup TrackJson]

NoOp == [op |-> "none"]

\* x ?? null
OrNull(x) == IF x = U THEN Null ELSE x

\* the ClipEdits object built from a row: a null column gives no field
EditsOfRow(row) ==
  [trimStart |-> IF row.trimStart # Null THEN row.trimStart ELSE U,
   trimEnd |-> IF row.trimEnd # Null THEN row.trimEnd ELSE U,
   audioTracks |-> IF row.audioTracks # Null THEN row.audioTracks ELSE U]

\* getClipEdits that builds an object from an absent row too
getClipEditsNoNull(row) ==
  IF row = NoRow THEN [trimStart |-> U, trimEnd |-> U, audioTracks |-> U]
                 ELSE EditsOfRow(row)

\* what getClipEdits returns for the row stmt.get found
getClipEditsResult(row) == IF row = NoRow THEN NullEdits ELSE EditsOfRow(row)

\* what isFavorite returns for the row stmt.get found
isFavoriteResult(row) == IF row # NoRow THEN row.isFavorite = 1 ELSE FALSE

DbOp(op, h, arg, res) ==
  [op |-> op, hash |-> h, arg |-> arg, found |-> clips, result |-> res]

\* the favorite column of a written row is always the default
FavoriteDefault(row) == 0

\* the favorite column is not in the DO UPDATE SET list: it keeps its value
\* on conflict and takes its default 0 on insert
FavoriteOnConflict(row) == IF row = NoRow THEN 0 ELSE row.isFavorite

\* INSERT ... ON CONFLICT(contentHash) DO UPDATE
saveClipEdits(h, filepath, edits) ==
  /\ clips' = [clips EXCEPT ![h] =
                 [filepath |-> filepath,
                  isFavorite |-> FavoriteOnConflict(clips[h]),
                  trimStart |-> OrNull(edits.trimStart),
                  trimEnd |-> OrNull(edits.trimEnd),
                  audioTracks |-> OrNull(edits.audioTracks)]]
  /\ dbLast' = DbOp("saveClipEdits", h, edits, "void")

getClipEdits(h) ==
  /\ dbLast' = DbOp("getClipEdits", h, U, getClipEditsResult(clips[h]))
  /\ UNCHANGED clips

toggleFavorite(h, filepath) ==
  IF clips[h] # NoRow
    THEN LET newStatus == IF clips[h].isFavorite = 1 THEN 0 ELSE 1 IN
         /\ clips' = [clips EXCEPT ![h].isFavorite = newStatus]
         /\ dbLast' = DbOp("toggleFavorite", h, filepath, newStatus = 1)
    ELSE /\ clips' = [clips EXCEPT ![h] =
                        [filepath |-> filepath, isFavorite |-> 1, trimStart |-> Null,
                         trimEnd |-> Null, audioTracks |-> Null]]
         /\ dbLast' = DbOp("toggleFavorite", h, filepath, TRUE)

isFavorite(h) ==
  /\ dbLast' = DbOp("isFavorite", h, U, isFavoriteResult(clips[h]))
  /\ UNCHANGED clips

\* UPDATE ... WHERE contentHash = ?: no row, no change
updateFilepath(h, newFilepath) ==
  /\ clips' = IF clips[h] = NoRow THEN clips
                                  ELSE [clips EXCEPT ![h].filepath = newFilepath]
  /\ dbLast' = DbOp("updateFilepath", h, newFilepath, "void")

\* initDatabase on a new user-data directory: the table is empty
DbInit ==
  /\ clips = [h \in Hashes |-> NoRow]
  /\ dbLast = NoOp

SaveClipEdits ==
  /\ \E h \in Hashes, f \in Paths, e \in EditArgs : saveClipEdits(h, f, e)
  /\ UNCHANGED notDb
GetClipEdits == (\E h \in Hashes : getClipEdits(h)) /\ UNCHANGED notDb
ToggleFavorite == (\E h \in Hashes, f \in Paths : toggleFavorite(h, f)) /\ UNCHANGED notDb
IsFavorite == (\E h \in Hashes : isFavorite(h)) /\ UNCHANGED notDb
UpdateFilepath == (\E h \in Hashes, f \in Paths : updateFilepath(h, f)) /\ UNCHANGED notDb

DbNext ==
  \/ SaveClipEdits
  \/ GetClipEdits
  \/ ToggleFavorite
  \/ IsFavorite
  \/ UpdateFilepath

\* ------------------------------------------------------------ audio filter graph
\* Stream specifiers and filter labels are pairs of a name and an index:
\* << "0:a", i >> is the source stream 0:a:i, << "a", i >> the label [ai],
\* << "aout", 0 >> the label [aout].  A filter is its name, the labels it
\* reads and the label it writes.  Volumes are in units of 1e-7.

MaxStreams == 2

One == 10000000
Epsilon == 10
\* audioTracks volumes of a stream: no entry, 1.0, 1.0000005 and 0.5
Volumes == { U, One, One + 5, One \div 2 }

StreamIdx == 0..(MaxStreams - 1)
FilterArgs ==
  [audioMode : {"combine", "separate", "unspecified"}, type : {"video", "mp3"},
   numAudioStreams : 0..MaxStreams, audioTracks : [StreamIdx -> Volumes]]

NoGraph == [built |-> FALSE]

getVolumeForIndex(audioTracks, idx) ==
  IF audioTracks[idx] = U THEN One ELSE audioTracks[idx]

Abs(x) == IF x < 0 THEN -x ELSE x

\* vol !== 1.0
VolumeNotOne(vol) == vol # One

\* Math.abs(vol - 1.0) > 1e-6
VolumeDiffers(vol) == Abs(vol - One) > Epsilon

\* audioMode || 'combine'
ModeOrCombine(audioMode) == IF audioMode = "unspecified" THEN "combine" ELSE audioMode

\* useCombine taken from the mode alone
UseCombineByMode(mode, type) == mode = "combine"

\* type === 'mp3' ? true : (mode === 'combine')
UseCombine(mode, type) == IF type = "mp3" THEN TRUE ELSE mode = "combine"

Filter(f, ins, out) == [f |-> f, ins |-> ins, out |-> out]

Touched(a) == VolumeDiffers(getVolumeForIndex(a.audioTracks, a.idx))

\* the streams 0..n-1 in order, each with the audioTracks it is looked up in
Streams(n, audioTracks) == [k \in 1..n |-> [idx |-> k - 1, audioTracks |-> audioTracks]]

VolumeOf(a) ==
  Filter("volume", << << "0:a", a.idx >> >>, << "a", a.idx >>)

\* filterParts.push(`[0:a:i]volume=vol[ai]`) for the streams whose volume differs
VolumeParts(n, audioTracks) ==
  LET touched == SelectSeq(Streams(n, audioTracks), Touched)
  IN [k \in 1..Len(touched) |-> VolumeOf(touched[k])]

AudioLabel(a) == IF Touched(a) THEN << "a", a.idx >> ELSE << "0:a", a.idx >>

buildFilterAndMaps(mode, type, n, audioTracks) ==
  LET first == IF type = "video" THEN << << "0:v", 0 >> >> ELSE << << "-vn", 0 >> >>
      labels == [k \in 1..n |-> AudioLabel(Streams(n, audioTracks)[k])]
  IN IF n <= 0 THEN [built |-> TRUE, filterParts |-> << >>, mapOptions |-> first]
     ELSE IF UseCombine(mode, type)
       THEN IF labels = << << "0:a", 0 >> >>
              THEN [built |-> TRUE, filterParts |-> VolumeParts(n, audioTracks),
                    mapOptions |-> first \o << << "0:a", 0 >> >>]
              ELSE [built |-> TRUE,
                    filterParts |-> VolumeParts(n, audioTracks)
                                      \o << Filter("amix", labels, << "aout", 0 >>) >>,
                    mapOptions |-> first \o << << "aout", 0 >> >>]
       ELSE [built |-> TRUE, filterParts |-> VolumeParts(n, audioTracks),
             mapOptions |-> first \o labels]

\* the second pass of encodeTwoPass: trim, then volume and mixing on the
\* trimmed tracks
TrimOf(a) == Filter("atrim", << << "0:a", a.idx >> >>, << "at", a.idx >>)
TrimmedVolumeOf(a) == Filter("volume", << << "at", a.idx >> >>, << "av", a.idx >>)
AdjustedLabel(a) == IF Touched(a) THEN << "av", a.idx >> ELSE << "at", a.idx >>
SeparateOf(a) ==
  Filter(IF Touched(a) THEN "volume" ELSE "anull", << << "at", a.idx >> >>, << "a", a.idx >>)

secondPassGraph(audioMode, n, audioTracks) ==
  LET streams == Streams(n, audioTracks)
      touched == SelectSeq(streams, Touched)
      trims == [k \in 1..n |-> TrimOf(streams[k])]
      adjusted == [k \in 1..n |-> AdjustedLabel(streams[k])]
      audio ==
        IF n <= 0 THEN << >>
        ELSE IF audioMode = "combine"
          THEN trims \o [k \in 1..Len(touched) |-> TrimmedVolumeOf(touched[k])]
                     \o << IF Len(adjusted) = 1
                             THEN Filter("anull", adjusted, << "aout", 0 >>)
                             ELSE Filter("amix", adjusted, << "aout", 0 >>) >>
          ELSE trims \o [k \in 1..n |-> SeparateOf(streams[k])]
      maps ==
        IF audioMode = "combine" /\ n > 0 THEN << << "aout", 0 >> >>
        ELSE IF audioMode = "separate" /\ n > 0 THEN [k \in 1..n |-> << "a", k - 1 >>]
        ELSE << >>
  IN [built |-> TRUE,
      filterParts |-> << Filter("trim", << << "0:v", 0 >> >>, << "v", 0 >>) >> \o audio,
      mapOptions |-> << << "v", 0 >> >> \o maps]

\* encodeOnce builds its graph
BuildOnePass ==
  /\ ~onePass.built
  /\ onePass' = buildFilterAndMaps(ModeOrCombine(fArgs.audioMode), fArgs.type,
                                   fArgs.numAudioStreams, fArgs.audioTracks)
  /\ UNCHANGED << fArgs, secondPass >>
  /\ UNCHANGED notFilter

\* encodeTwoPass builds the graph of its second pass (video output only)
BuildSecondPass ==
  /\ ~secondPass.built
  /\ fArgs.type = "video"
  /\ secondPass' = secondPassGraph(fArgs.audioMode, fArgs.numAudioStreams, fArgs.audioTracks)
  /\ UNCHANGED << fArgs, onePass >>
  /\ UNCHANGED notFilter

FilterIdle ==
  /\ fArgs = [audioMode |-> "combine", type |-> "video", numAudioStreams |-> 0,
              audioTracks |-> [i \in StreamIdx |-> U]]
  /\ onePass = NoGraph
  /\ secondPass = NoGraph

FilterInit ==
  /\ fArgs \in FilterArgs
  /\ onePass = NoGraph
  /\ secondPass = NoGraph

FilterNext ==
  \/ BuildOnePass
  \/ BuildSecondPass

\* ------------------------------------------------------------ thumbnail timestamp
\* Times are in milliseconds; U is an argument that was not given.

Second == 1000
Durations == { U, -2000, 0, 1000, 4000, 6000 }
TrimStarts == { U, -1000, 0, 2000 }
TrimEnds == { U, 0, 2000, 3000 }
StampArgs == [duration : Durations, trimStart : TrimStarts, trimEnd : TrimEnds]

\* both trim points given and the end after the start
TrimGivenAnyStart(trimStart, trimEnd) == trimStart # U /\ trimEnd # U /\ trimEnd > trimStart

\* trimStart !== undefined && trimEnd !== undefined && trimStart >= 0 && trimEnd > trimStart
TrimGiven(trimStart, trimEnd) == trimStart # U /\ trimEnd # U /\ trimStart >= 0 /\ trimEnd > trimStart

thumbTimestamp(duration, trimStart, trimEnd) ==
  IF TrimGiven(trimStart, trimEnd) THEN trimStart
  ELSE IF duration # U /\ duration > 0 THEN duration \div 2
  ELSE Second

\* the handler chooses the timestamp of the capture
ChooseTimestamp ==
  /\ timestamp = U
  /\ timestamp' = thumbTimestamp(tArgs.duration, tArgs.trimStart, tArgs.trimEnd)
  /\ UNCHANGED tArgs
  /\ UNCHANGED notStamp

StampIdle ==
  /\ tArgs = [duration |-> U, trimStart |-> U, trimEnd |-> U]
  /\ timestamp = U

StampInit ==
  /\ tArgs \in StampArgs
  /\ timestamp = U

StampNext == ChooseTimestamp

\* ------------------------------------------------------------ ExportPanel restarts
\* The exports that one ExportPanel starts, all from the same sender, with
\* the two maps of the main process that are keyed by the sender id.  An
\* export is "once" (one encode), "retry" (a single-pass encode whose output
\* is over the target, then one retry) or "two" (first pass, 100 ms wait,
\* second pass).  A subprocess is "starting" from run() to its 'start'
\* event, then "running", then "ended" / "failed" / "killed" until its event
\* is handled.

MaxJobs == 2

Jobs == 1..MaxJobs
JobKinds == { "once", "retry", "two" }
Percent == 50

NoJob == [pc |-> "none", kind |-> "once", proc |-> "none", left |-> 0, res |-> "none",
          seen |-> FALSE]

\* handleExport up to its await of api.exportVideo, and the invocation of
\* export-video that it makes
handleExport(kind) ==
  LET token == nJobs + 1 IN
  /\ nJobs < MaxJobs
  /\ nJobs' = token
  /\ exportTokenRef' = token
  /\ isProcessing' = TRUE
  /\ shown' = [path |-> 0, status |-> "processing", progress |-> 0]
  /\ jobs' = [jobs EXCEPT ![token] =
                [pc |-> "probe", kind |-> kind, proc |-> "none",
                 left |-> IF kind = "once" THEN 0 ELSE 1, res |-> "none", seen |-> FALSE]]
  /\ UNCHANGED << activeCmd, cancelFlag, failTimers >>

\* ipcMain.handle('cancel-export')
cancelExport ==
  IF activeCmd # 0
  THEN /\ cancelFlag' = TRUE
       /\ jobs' = [jobs EXCEPT ![activeCmd].proc = IF @ = "running" THEN "killed" ELSE @]
       /\ activeCmd' = 0
  ELSE UNCHANGED << cancelFlag, jobs, activeCmd >>

\* export-video returns res to the renderer
Returns(j, res) ==
  jobs' = [jobs EXCEPT ![j].pc = "returned", ![j].proc = "none", ![j].res = res]

\* the panel is mounted: useEffect(() => { handleExport() }, [])
Mount ==
  /\ nJobs = 0
  /\ \E k \in JobKinds : handleExport(k)
  /\ UNCHANGED restartTimers
  /\ UNCHANGED notPanel

\* a setting that restarts the export changes (size, audio mode, quality)
SettingsChange ==
  /\ nJobs > 0
  /\ nJobs + restartTimers < MaxJobs
  /\ IF isProcessing
     THEN /\ shown' = [path |-> 0, status |-> "updating", progress |-> 0]
          /\ cancelExport
          /\ restartTimers' = restartTimers + 1
          /\ UNCHANGED << nJobs, exportTokenRef, isProcessing, failTimers >>
     ELSE /\ \E k \in JobKinds : handleExport(k)
          /\ UNCHANGED restartTimers
  /\ UNCHANGED notPanel

\* setTimeout(() => { handleExport() }, 50)
RestartTimer ==
  /\ restartTimers > 0
  /\ restartTimers' = restartTimers - 1
  /\ \E k \in JobKinds : handleExport(k)
  /\ UNCHANGED notPanel

\* ffprobe has answered: the first encode is run
JobProbed ==
  /\ \E j \in Jobs :
        /\ jobs[j].pc = "probe"
        /\ jobs' = [jobs EXCEPT ![j].pc = "enc", ![j].proc = "starting"]
  /\ UNCHANGED << nJobs, activeCmd, cancelFlag, exportTokenRef, isProcessing, shown,
                  restartTimers, failTimers >>
  /\ UNCHANGED notPanel

\* the 'start' event: activeExports.set(event.sender.id, command)
JobStart ==
  /\ \E j \in Jobs :
        /\ jobs[j].proc = "starting"
        /\ jobs' = [jobs EXCEPT ![j].proc = "running"]
        /\ activeCmd' = j
  /\ UNCHANGED << nJobs, cancelFlag, exportTokenRef, isProcessing, shown, restartTimers,
                  failTimers >>
  /\ UNCHANGED notPanel

\* the subprocess exits: with code 0, or with an error of its own
JobExit ==
  /\ \E j \in Jobs, how \in {"ended", "failed"} :
        /\ jobs[j].proc \in {"starting", "running"}
        /\ jobs[j].proc = "starting" => how = "failed"
        /\ jobs' = [jobs EXCEPT ![j].proc = how]
  /\ UNCHANGED << nJobs, activeCmd, cancelFlag, exportTokenRef, isProcessing, shown,
                  restartTimers, failTimers >>
  /\ UNCHANGED notPanel

\* the 'end' handler and the code that follows the awaited encode: the
\* export returns the path, runs its retry, or goes into the 100 ms wait
JobEnd ==
  /\ \E j \in Jobs :
        /\ jobs[j].proc = "ended"
        /\ activeCmd' = 0
        /\ IF jobs[j].left = 0 THEN Returns(j, "path") /\ UNCHANGED cancelFlag
           ELSE IF jobs[j].kind = "retry"
           THEN /\ jobs' = [jobs EXCEPT ![j].proc = "starting", ![j].left = 0]
                /\ UNCHANGED cancelFlag
           ELSE IF cancelFlag THEN Returns(j, "canceled") /\ UNCHANGED cancelFlag
           ELSE /\ jobs' = [jobs EXCEPT ![j].pc = "wait", ![j].proc = "none"]
                /\ UNCHANGED cancelFlag
  /\ UNCHANGED << nJobs, exportTokenRef, isProcessing, shown, restartTimers, failTimers >>
  /\ UNCHANGED notPanel

\* after the 100 ms wait: the first-pass log is validated and the second
\* pass is run
JobAfterWait ==
  /\ \E j \in Jobs, logOk \in BOOLEAN :
        /\ jobs[j].pc = "wait"
        /\ IF logOk
           THEN jobs' = [jobs EXCEPT ![j].pc = "enc", ![j].proc = "starting", ![j].left = 0]
           ELSE Returns(j, "error")
  /\ UNCHANGED << nJobs, activeCmd, cancelFlag, exportTokenRef, isProcessing, shown,
                  restartTimers, failTimers >>
  /\ UNCHANGED notPanel

\* the 'error' handler; kw: the message matches the kill pattern.  The
\* rejection of a retry is caught by the size-check try block.
JobError ==
  /\ \E j \in Jobs, kw \in BOOLEAN :
        /\ jobs[j].proc \in {"failed", "killed"}
        /\ jobs[j].proc = "killed" => kw
        /\ activeCmd' = 0
        /\ IF WasCanceled(cancelFlag, kw)
           THEN cancelFlag' = FALSE /\ Returns(j, "canceled")
           ELSE /\ UNCHANGED cancelFlag
                /\ IF jobs[j].kind = "retry" /\ jobs[j].left = 0
                   THEN Returns(j, "path") ELSE Returns(j, "error")
  /\ UNCHANGED << nJobs, exportTokenRef, isProcessing, shown, restartTimers, failTimers >>
  /\ UNCHANGED notPanel

\* progressListener of a handleExport that has not yet unsubscribed
progressListener(jobId) ==
  IF jobId # exportTokenRef THEN UNCHANGED shown
  ELSE shown' = [shown EXCEPT !.progress = Percent]

\* a 'progress' event of the subprocess of job j, sent as 'export-progress'
ProgressEvent ==
  /\ \E j \in Jobs :
        /\ jobs[j].proc = "running"
        /\ progressListener(j)
  /\ UNCHANGED << jobs, nJobs, activeCmd, cancelFlag, exportTokenRef, isProcessing,
                  restartTimers, failTimers >>
  /\ UNCHANGED notPanel

\* handleExport of job j after its await of api.exportVideo
completion(j) ==
  /\ jobs[j].pc = "returned" /\ ~jobs[j].seen
  /\ jobs' = [jobs EXCEPT ![j].seen = TRUE]
  /\ IF jobs[j].res = "path"
     THEN /\ IF j = exportTokenRef
             THEN /\ shown' = [path |-> j, status |-> "ready", progress |-> 100]
                  /\ isProcessing' = FALSE
             ELSE UNCHANGED << shown, isProcessing >>
          /\ UNCHANGED failTimers
     ELSE IF jobs[j].res = "canceled"
     THEN /\ shown' = [shown EXCEPT !.progress = 0]
          /\ UNCHANGED << isProcessing, failTimers >>
     ELSE /\ shown' = [shown EXCEPT !.status = "failed"]
          /\ failTimers' = failTimers \cup {j}
          /\ UNCHANGED isProcessing

Completion ==
  /\ \E j \in Jobs : completion(j)
  /\ UNCHANGED << nJobs, activeCmd, cancelFlag, exportTokenRef, restartTimers >>
  /\ UNCHANGED notPanel

\* the 5 s timer of a failed export
failTimer(j) ==
  /\ j \in failTimers
  /\ failTimers' = failTimers \ {j}
  /\ isProcessing' = FALSE
  /\ shown' = [shown EXCEPT !.status = "", !.progress = 0]

FailTimer ==
  /\ \E j \in Jobs : failTimer(j)
  /\ UNCHANGED << jobs, nJobs, activeCmd, cancelFlag, exportTokenRef, restartTimers >>
  /\ UNCHANGED notPanel

PanelInit ==
  /\ jobs = [j \in Jobs |-> NoJob]
  /\ nJobs = 0
  /\ activeCmd = 0
  /\ cancelFlag = FALSE
  /\ exportTokenRef = 0
  /\ isProcessing = FALSE
  /\ shown = [path |-> 0, status |-> "", progress |-> 0]
  /\ restartTimers = 0
  /\ failTimers = {}

PanelNext ==
  \/ Mount
  \/ SettingsChange
  \/ RestartTimer
  \/ JobProbed
  \/ JobStart
  \/ JobExit
  \/ JobEnd
  \/ JobAfterWait
  \/ JobError
  \/ ProgressEvent
  \/ Completion
  \/ FailTimer

vars == << cacheVars, exportVars, watchVars, hashVars, dbVars, filterVars, stampVars,
          panelVars >>

Init == CacheInit /\ ExportInit /\ WatchInit /\ HashIdle /\ DbInit /\ FilterIdle /\ StampIdle /\ PanelInit
NextCache == CacheNext
SpecCache == Init /\ [][NextCache]_vars

InitExport == CacheIdle /\ ExportInit /\ WatchInit /\ HashIdle /\ DbInit /\ FilterIdle /\ StampIdle /\ PanelInit
NextExport == ExportNext
SpecExport == InitExport /\ [][NextExport]_vars

\* every spawned subprocess comes to its 'end' or 'error' event, and every
\* awaited timer and probe comes back
ExportFairness ==
  /\ WF_vars(ExportProbed)
  /\ WF_vars(OnStart)
  /\ WF_vars(ProcExit \/ ProcFail)
  /\ WF_vars(OnEnd)
  /\ WF_vars(AfterWait)
  /\ WF_vars(ErrorEvent)
SpecExportLive == InitExport /\ [][NextExport]_vars /\ ExportFairness

InitWatch == CacheIdle /\ ExportInit /\ WatchInit /\ HashIdle /\ DbInit /\ FilterIdle /\ StampIdle /\ PanelInit
NextWatch == WatchNext
SpecWatch == InitWatch /\ [][NextWatch]_vars

InitHash == CacheIdle /\ ExportInit /\ WatchInit /\ HashInit /\ DbInit /\ FilterIdle /\ StampIdle /\ PanelInit
NextHash == HashNext
SpecHash == InitHash /\ [][NextHash]_vars

InitDb == CacheIdle /\ ExportInit /\ WatchInit /\ HashIdle /\ DbInit /\ FilterIdle /\ StampIdle /\ PanelInit
NextDb == DbNext
SpecDb == InitDb /\ [][NextDb]_vars

InitFilter == CacheIdle /\ ExportInit /\ WatchInit /\ HashIdle /\ DbInit /\ FilterInit /\ StampIdle /\ PanelInit
NextFilter == FilterNext
SpecFilter == InitFilter /\ [][NextFilter]_vars

InitStamp == CacheIdle /\ ExportInit /\ WatchInit /\ HashIdle /\ DbInit /\ FilterIdle /\ StampInit /\ PanelInit
NextStamp == StampNext
SpecStamp == InitStamp /\ [][NextStamp]_vars

InitPanel == CacheIdle /\ ExportInit /\ WatchInit /\ HashIdle /\ DbInit /\ FilterIdle /\ StampIdle /\ PanelInit
NextPanel == PanelNext
SpecPanel == InitPanel /\ [][NextPanel]_vars

\* ------------------------------------------------------------ properties
RunKey(q) == IF q.kind = "thumb" THEN computeCachedThumbPath(q.ver, q.arg[1], q.arg[2])
                                 ELSE << q.ver, NoTag >>

\* C1: requests for the same key of one cache (forceRefresh = false) that
\* arrive before the computation of the first has settled all await one
\* computation: exactly one engine run is started for the key.
C1_FanIn ==
  \A i, j \in DOMAIN reqs :
    ( /\ i < j
      /\ reqs[i].st = "waiting" /\ reqs[j].st = "waiting"
      /\ reqs[i].kind = reqs[j].kind /\ RunKey(reqs[i]) = RunKey(reqs[j])
      /\ ~reqs[i].force /\ ~reqs[j].force /\ ~reqs[i].evicted )
    => reqs[i].run = reqs[j].run

\* C2: at most one extraction computation per audio cache key is running.
C2_SingleExtraction ==
  \A k \in Vers :
    Cardinality({ r \in DOMAIN audioRuns :
                    audioRuns[r].key = k /\ audioRuns[r].ph = "extracting" }) <= 1

MetaPending(k) == \E r \in DOMAIN metaRuns : metaRuns[r].key = k /\ metaRuns[r].st = "probing"
ThumbPending(k) == \E r \in DOMAIN thumbRuns : thumbRuns[r].key = k /\ thumbRuns[r].st = "pending"
AudioPending(k) == \E r \in DOMAIN audioRuns :
                     audioRuns[r].key = k /\ audioRuns[r].ph \in {"probing", "extracting"}

\* C3: in every state in which no computation for a key is running, the
\* task map of the cache holds no entry for that key.
C3_NoSettledEntry ==
  /\ \A k \in Vers : ~MetaPending(k) => metaTasks[k] = 0
  /\ \A k \in ThumbKeys : ~ThumbPending(k) => thumbTasks[k] = 0
  /\ \A k \in Vers : ~AudioPending(k) => audioExtractTasks[k] = 0

\* C3 witness: two computations of one key have settled, one by timeout
\* and one by success, and the map holds no entry for the key
C3_Witness ==
  \E r1, r2 \in DOMAIN thumbRuns :
    /\ thumbRuns[r1].st = "timeout"
    /\ thumbRuns[r2].st = "ok"
    /\ thumbRuns[r1].key = thumbRuns[r2].key
    /\ thumbTasks[thumbRuns[r1].key] = 0

\* C4: a get-cached-metadata or get-cached-thumbnail request that follows a
\* successful request with the same arguments (source unchanged, no
\* clear-cache in between) starts no engine run and returns the same artifact.
C4_Idempotent ==
  \A i \in DOMAIN reqs :
    (reqs[i].kind \in {"meta", "thumb"} /\ reqs[i].prior.st # "none")
    => /\ reqs[i].st = "done"
       /\ ~reqs[i].started
       /\ reqs[i].res = reqs[i].prior

\* an artifact of source version v was cached while the source still had
\* version v
CachedBeforeChange(v) ==
  \A r \in DOMAIN metaRuns : (metaRuns[r].st = "ok" /\ metaRuns[r].src = v) => metaRuns[r].at = v

\* C5: a request that arrives after the source file changed never returns
\* an artifact that was computed from, and cached for, an older version of
\* the file.
C5_NoStaleArtifact ==
  \A i \in DOMAIN reqs :
    (reqs[i].st = "done" /\ IsOk(reqs[i].res) /\ CachedBeforeChange(reqs[i].res.ver))
    => reqs[i].res.ver >= reqs[i].ver

AudioQuiet(k) ==
  \A r \in DOMAIN audioRuns :
    audioRuns[r].key = k =>
      /\ audioRuns[r].ph \notin {"probing", "extracting"}
      /\ \A i \in Tracks : audioRuns[r].trk[i] \notin {"run", "open"}

\* C6: once an extraction of a source with two or more audio tracks failed
\* on a track (and none succeeded), the cache directory of the key holds no
\* file in every state in which no extraction for the key is running.
C6_AllOrNothing ==
  \A k \in Vers :
    ( /\ AudioQuiet(k)
      /\ \E r \in DOMAIN audioRuns :
            audioRuns[r].key = k /\ audioRuns[r].hasError /\ audioRuns[r].expected >= 2
      /\ \A r \in DOMAIN audioRuns : audioRuns[r].key = k => audioRuns[r].ph # "ok" )
    => audioDisk[k] = NoFiles


\* ------------------------------------------------------------ export properties

\* every attempt this export has started settled with an output file
AllProduced == Len(encLog) = nEnc

Returned == ePc = "done" /\ result = "path"

\* C7: a size-targeted export none of whose encode attempts fails or is
\* canceled runs at most one initial encode and 3 retries; when it returns,
\* the output is within the target or exactly 3 retries were made; and every
\* attempt before the current one left an output above the target.
C7_BoundedRetries ==
  SizeTargeted(eArgs) =>
    /\ nEnc <= 1 + maxAttempts
    /\ attempts <= maxAttempts
    /\ \A i \in 1..(nEnc - 1) :
          i <= Len(encLog) /\ encLog[i].size > targetBytes(eArgs)
    /\ (Returned /\ AllProduced) =>
          (outSize <= targetBytes(eArgs) \/ attempts = maxAttempts)

\* three retries were made, none of them failed, and the last is above the target
C7_Witness ==
  /\ SizeTargeted(eArgs) /\ Returned /\ AllProduced
  /\ attempts = maxAttempts /\ nEnc = 1 + maxAttempts
  /\ outSize > targetBytes(eArgs)

\* the retries are used up and no attempt reached the target
Exhausted ==
  /\ SizeTargeted(eArgs) /\ Returned /\ AllProduced
  /\ nEnc >= 1
  /\ \A i \in 1..Len(encLog) : encLog[i].size > targetBytes(eArgs)

\* the attempts' output sizes never grew from one attempt to the next
NonIncreasing ==
  \A i \in 1..(Len(encLog) - 1) : encLog[i + 1].size <= encLog[i].size

\* C8 as stated: after 3 exhausted retries the returned file is the smallest
\* of all the attempts made during the export.
C8_ReturnsSmallest ==
  Exhausted => \A i \in 1..Len(encLog) : outSize <= encLog[i].size

\* C8 amended: after 3 exhausted retries the returned file is the output of
\* the last of the four attempts; it is the smallest of all the attempts
\* whenever the sizes did not grow from one attempt to the next.
C8_ReturnsLast ==
  Exhausted =>
    /\ Len(encLog) = 1 + maxAttempts
    /\ outSize = encLog[Len(encLog)].size
    /\ NonIncreasing => \A i \in 1..Len(encLog) : outSize <= encLog[i].size

\* exhausted with a first attempt larger than the returned last one
C8_Witness ==
  /\ Exhausted /\ NonIncreasing
  /\ encLog[1].size > outSize

\* C9: a cancel-export handled between the end of the first pass and the
\* start of the second makes export-video return Canceled, keeps the second
\* pass from starting, and leaves no statistics file of that encode.
C9_CancelBetweenPasses ==
  gapCancel =>
    /\ ~(ePc = "enc" /\ enc.pass = 2 /\ proc # "starting")
    /\ ePc = "done" => (result = "canceled" /\ statFiles = "absent")

\* C10: a cancel-export handled while an encode subprocess is running kills
\* it; export-video then returns Canceled, never a path or an error, and
\* starts no further encode.
C10_CancelWhileRunning ==
  runCancel # 0 =>
    /\ nEnc = runCancel
    /\ ~(ePc = "enc" /\ proc \in {"starting", "running", "ending"})
    /\ ePc = "done" => result = "canceled"

\* C11: an encode attempt that resolves as Canceled is the last attempt of its
\* export-video invocation, which returns Canceled.
C11_CanceledShortCircuits ==
  \A i \in 1..Len(settles) :
     settles[i].res = "canceled" =>
        /\ i = Len(settles) /\ nEnc = i
        /\ ePc = "done" /\ result = "canceled"

\* a retry was canceled
C11_Witness ==
  /\ Len(settles) >= 2
  /\ settles[Len(settles)].res = "canceled"
  /\ ePc = "done"

\* C12: an encode attempt that fails with an error of its own, the initial one
\* or a retry, is the last attempt of its invocation, which fails with it.
C12_ErrorPropagates ==
  \A i \in 1..Len(settles) :
     settles[i].res = "error" =>
        /\ i = Len(settles) /\ nEnc = i
        /\ ePc = "done" /\ result = "error"

\* C13: once a two-pass encode has settled, none of its statistics files is
\* on disk, and none of an earlier encode is.
C13_NoStatsLeft ==
  /\ ~leaked
  /\ (ePc = "done" /\ enc.kind = "two") => statFiles = "absent"

\* the first pass ended and left a log that is absent or under 1024 bytes
BadLog(r) == r.pass = 1 /\ r.ev \in {"end", "wait"} /\ r.log \in {"absent", "small"}

\* the second pass is only ever awaited with a valid first-pass log
SecondPassNeedsLog ==
  /\ (ePc = "enc" /\ enc.pass = 2) => statFiles = "ok"
  /\ \A i \in 1..Len(settles) : settles[i].pass = 2 => settles[i].log = "ok"

C15_OneOutcome ==
  /\ [](ePc = "done" <=> result # "none")
  /\ [](ePc = "done" => proc = "none")
  /\ [][(result # "none" /\ nExports' = nExports) => result' = result]_vars
  /\ (ePc = "probe" ~> ePc = "done")

\* an export that went through a retry delivered its outcome
C15_Witness == ePc = "done" /\ result # "none" /\ nEnc >= 2

\* ------------------------------------------------------------ watcher properties

\* number of 'file-added' notifications that watcher g sent for burst b
Added(g, b) ==
  Cardinality({ i \in DOMAIN notes :
                  notes[i].kind = "file-added" /\ notes[i].gen = g /\ notes[i].burst = b })

\* the burst was for a path the watcher did not track, whose file was there
\* when the timer fired
NewPath(h) == ~h.tracked /\ h.s1 >= 0

\* a notification follows two size checks that gave the same non-zero size
AddedAfterStableSize ==
  \A i \in DOMAIN notes :
     notes[i].kind = "file-added" => (notes[i].s1 = notes[i].s2 /\ notes[i].s1 > 0)

\* C16 as stated: every burst of raw events for a new media path gives
\* exactly one 'file-added', sent after two equal non-zero size checks.
C16_OneAddedPerBurst ==
  /\ AddedAfterStableSize
  /\ \A i \in DOMAIN handled :
        NewPath(handled[i]) => Added(handled[i].gen, handled[i].burst) = 1

\* C16 amended: a burst gives at most one 'file-added': one when the file has
\* a non-zero size as the timer fires and the same size 200 ms later (and the
\* application has a window to send it to), none otherwise; it is sent after
\* two equal non-zero size checks.
C16_AtMostOneAdded ==
  /\ AddedAfterStableSize
  /\ \A g \in Watchers, b \in 1..nBursts : Added(g, b) <= 1
  /\ \A i \in DOMAIN handled :
        NewPath(handled[i]) =>
           Added(handled[i].gen, handled[i].burst) =
              IF handled[i].s1 > 0 /\ handled[i].s2 = handled[i].s1 /\ handled[i].sent
              THEN 1 ELSE 0

\* one watcher dropped a burst whose file was still growing and reported the
\* file after a later burst
C16_Witness ==
  \E i, j \in DOMAIN handled :
     /\ handled[i].gen = handled[j].gen /\ i < j
     /\ NewPath(handled[i]) /\ handled[i].s1 > 0 /\ handled[i].s2 > handled[i].s1
     /\ NewPath(handled[j]) /\ handled[j].sent

\* C17: no notification is sent while the root has no watcher.
C17_SilentAfterUnwatch ==
  \A i \in DOMAIN notes : notes[i].live

\* ------------------------------------------------------------ content hash properties

\* C18: the digest of getClipHash depends on the bytes read from the first
\* chunk, the file size and the duration with null and 0 taken as 0, and on
\* nothing else: calls that agree on the three give the same digest, at any
\* path and at any time.
C18_HashOfSample ==
  \A i, j \in DOMAIN hashLog :
     ( /\ hashLog[i].bytes = hashLog[j].bytes
       /\ hashLog[i].fileSize = hashLog[j].fileSize
       /\ OrZero(hashLog[i].duration) = OrZero(hashLog[j].duration) )
     => hashLog[i].hash = hashLog[j].hash

\* two calls at different paths, one with a null duration and one with 0,
\* read the same sample and size
C18_Witness ==
  \E i, j \in DOMAIN hashLog :
     /\ hashLog[i].path # hashLog[j].path
     /\ hashLog[i].bytes = hashLog[j].bytes /\ hashLog[i].bytes # << >>
     /\ hashLog[i].fileSize = hashLog[j].fileSize
     /\ hashLog[i].duration = Null /\ hashLog[j].duration = 0
     /\ hFiles[hashLog[i].path] # hFiles[hashLog[j].path]

\* ------------------------------------------------------------ thumbnail cache properties

\* both bounds given and 0 <= trimStart < trimEnd
TrimActive(arg) == arg[1] # U /\ arg[2] # U /\ 0 <= arg[1] /\ arg[1] < arg[2]

\* the request was answered with the file of the un-parameterized key
ServedOld(q) ==
  q.kind = "thumb" /\ q.st = "done" /\ q.res.st = "path" /\ q.res.tag = NoTag

\* C19: a request with an active trim window, trimStart = 0 included, is
\* never answered with the older un-parameterized thumbnail.
C19_NoOldFileUnderTrim ==
  \A i \in DOMAIN reqs : ServedOld(reqs[i]) => ~TrimActive(reqs[i].arg)

\* C20: once a thumbnail computation has failed or timed out, no partial file
\* is left at its cache path: a partial file belongs to a computation that is
\* still pending.
C20_NoPartialAfterFailure ==
  \A k \in ThumbKeys :
     thumbDisk[k] = "part" =>
        \E r \in DOMAIN thumbRuns : thumbRuns[r].key = k /\ thumbRuns[r].st = "pending"

\* ------------------------------------------------------------ audio cache properties

\* run r settles in this step with the list of track files
ResolvesFiles(r) == audioRuns[r].ph \notin {"ok", "empty"} /\ audioRuns'[r].ph \in {"ok", "empty"}

\* C21: in the step in which an extraction task resolves with its list, the
\* list has one entry per audio stream of the source and every listed file
\* exists with a size above zero, whatever other requests overlapped.
C21_ListedFilesExist ==
  [][ \A r \in DOMAIN audioRuns :
        ResolvesFiles(r) =>
          /\ audioRuns'[r].ph = "empty" <=> numAudio = 0
          /\ audioRuns'[r].ph = "ok" => audioRuns'[r].expected = numAudio
          /\ \A i \in 1..numAudio :
                audioDisk'[audioRuns[r].key][i] \notin {"absent", "empty"} ]_vars

\* a forced extraction resolved with its files while the extraction it
\* displaced was still running for the same key
C21_Witness ==
  /\ Len(audioRuns) = 2
  /\ audioRuns[1].key = audioRuns[2].key
  /\ audioRuns[1].ph = "extracting"
  /\ audioRuns[2].force /\ audioRuns[2].ph = "ok"
  /\ audioRuns[2].completed = audioRuns[2].expected /\ audioRuns[2].expected = NumTracks

\* ------------------------------------------------------------ clips store properties

\* the last operation was a read of a hash that had no row
ReadOfUnknown ==
  dbLast.op \in {"getClipEdits", "isFavorite"} /\ dbLast.found[dbLast.hash] = NoRow

\* C22: for a content hash without a row, isFavorite returns false and
\* getClipEdits returns null, and the table is as it was found: no row is
\* created.
C22_UnknownHashReads ==
  ReadOfUnknown =>
    /\ dbLast.op = "isFavorite" => dbLast.result = FALSE
    /\ dbLast.op = "getClipEdits" => dbLast.result = NullEdits
    /\ clips = dbLast.found

\* getClipEdits answered null for a hash without a row while the other hash
\* has a favorite row with saved edits
C22_Witness ==
  /\ ReadOfUnknown /\ dbLast.op = "getClipEdits" /\ dbLast.result = NullEdits
  /\ \E h \in Hashes : clips[h] # NoRow /\ clips[h].isFavorite = 1 /\ clips[h].trimStart = 0

\* ------------------------------------------------------------ encode error properties

\* this step is the 'error' handler of an encodeOnce subprocess
OnceErrorHandled ==
  /\ Len(settles') = Len(settles) + 1
  /\ settles'[Len(settles')].kind = "once"
  /\ settles'[Len(settles')].ev = "error"

\* C23: the 'error' handler of encodeOnce resolves Canceled exactly when the
\* session's cancel flag is set or the message matches the kill pattern, and
\* fails otherwise; it leaves no handle in activeExports and, when it
\* resolves Canceled, no cancel flag.
C23_ErrorClassified ==
  [][ OnceErrorHandled =>
        LET s == settles'[Len(settles')] IN
        /\ s.res \in {"canceled", "error"}
        /\ s.res = "canceled" <=> (s.flag \/ s.kw)
        /\ ~activeExports'
        /\ s.res = "canceled" => ~canceledExports' ]_vars

\* an encodeOnce retry failed with a message that matches the kill pattern
\* while no cancel flag was set, and was resolved Canceled
C23_Witness ==
  \E i \in DOMAIN settles :
     /\ i > 1
     /\ settles[i].kind = "once" /\ settles[i].ev = "error"
     /\ settles[i].res = "canceled" /\ settles[i].kw /\ ~settles[i].flag

\* ------------------------------------------------------------ export dispatch properties

SingleShot == eArgs.outputType = "mp3" \/ eArgs.quality # "compressed"

\* C24: an audio-only or not compressed export starts one encodeOnce
\* subprocess, never enters the retry loop, and returns the outcome of that
\* one attempt.
C24_SingleEncode ==
  (ePc # "idle" /\ SingleShot) =>
    /\ nEnc <= 1
    /\ attempts = 0
    /\ ePc \in {"enc", "done"} => (nEnc = 1 /\ enc.kind = "once")
    /\ ePc = "done" => (Len(settles) = 1 /\ result = settles[1].res)

\* a compressed mp3 export returned its output after one encode
C24_Witness ==
  /\ ePc = "done" /\ result = "path" /\ nEnc = 1
  /\ eArgs.outputType = "mp3" /\ eArgs.quality = "compressed"

\* ------------------------------------------------------------ encode mode properties

\* an encode attempt of a compressed export has been started
AttemptStarted == ~SingleShot /\ ePc \in {"enc", "wait100", "done"} /\ nEnc >= 1

\* constant quality only in the first attempt of the 'standard' tier, and
\* an explicit bitrate in every retry
CRFOnlyFirst ==
  AttemptStarted =>
    /\ enc.mode = "crf" => (attempts = 0 /\ eArgs.compressionQuality = "standard")
    /\ attempts > 0 => enc.mode \in {"abr", "2pass"}

\* C25 as stated: constant quality at most in the first attempt of the
\* 'standard' tier, explicit bitrate in every retry, and every attempt of
\* the 'high' tier is a two-pass encode.
C25_ModePerTier ==
  /\ CRFOnlyFirst
  /\ (AttemptStarted /\ eArgs.compressionQuality = "high") => enc.kind = "two"

\* C25 amended: the same, but a 'high' export to an .avi file runs every
\* attempt as a single-pass explicit-bitrate encode.
C25_ModePerTierButAvi ==
  /\ CRFOnlyFirst
  /\ (AttemptStarted /\ eArgs.compressionQuality = "high") =>
        IF eArgs.ext = ".avi" THEN enc.kind = "once" /\ enc.mode = "abr"
                              ELSE enc.kind = "two" /\ enc.mode = "2pass"
  /\ (AttemptStarted /\ eArgs.compressionQuality # "high") => enc.kind = "once"

\* a 'standard' export went from constant quality to a bitrate retry and
\* returned
C25_Witness ==
  /\ ePc = "done" /\ result = "path" /\ ~SingleShot
  /\ eArgs.compressionQuality = "standard" /\ eArgs.ext = ".mp4"
  /\ attempts >= 2 /\ enc.mode = "abr"
  /\ Len(encLog) >= 1 /\ encLog[1].mode = "crf"

\* ------------------------------------------------------------ bitrate properties

\* this step starts an encode attempt of a compressed export
AttemptStarts == ~SingleShot /\ nEnc' = nEnc + 1

\* C26: the bitrate of the first attempt is
\* max(100, floor(effectiveTargetBits / duration / 1000) - 128); the bitrate
\* of a retry is max(100, floor(previous * 0.80)) in the 'high' tier and
\* max(100, floor(previous * 0.85)) in the others; no attempt asks for less
\* than 100 kbps or for more than the attempt before it.
C26_BitrateLadder ==
  [][ AttemptStarts =>
        /\ enc'.kbps >= 100
        /\ nEnc = 0 =>
              enc'.kbps = Max(100, (effectiveTargetBits(eArgs) \div (eArgs.duration * 1000)) - 128)
        /\ nEnc >= 1 =>
              /\ enc'.kbps <= enc.kbps
              /\ enc'.kbps = IF eArgs.compressionQuality = "high"
                               THEN Max(100, (enc.kbps * 80) \div 100)
                               ELSE Max(100, (enc.kbps * 85) \div 100) ]_vars

\* an export made three retries that lowered the bitrate of the 'high' tier
\* below the initial one, or that kept it at the floor of 100 kbps
C26_Witness ==
  /\ ePc = "done" /\ ~SingleShot /\ attempts = maxAttempts
  /\ \/ (enc.kbps > 100 /\ enc.kbps < initialBitrate(eArgs) /\ eArgs.compressionQuality = "high")
     \/ (enc.kbps = 100 /\ initialBitrate(eArgs) = 100)

\* ------------------------------------------------------------ filter graph properties

IsAudioMap(m) == m[1] \in {"0:a", "a", "aout"}
AudioMaps(g) == SelectSeq(g.mapOptions, IsAudioMap)

\* C27: for mp3 output buildFilterAndMaps gives at most one audio mapping
\* whatever the mode and the number of streams; for video output it gives
\* one mapping per audio stream in stream order in 'separate' mode, and one
\* mapping in 'combine' mode when there is an audio stream.
C27_AudioMappings ==
  onePass.built =>
    LET maps == AudioMaps(onePass)
        n == fArgs.numAudioStreams
    IN /\ fArgs.type = "mp3" => Len(maps) <= 1
       /\ (fArgs.type = "video" /\ fArgs.audioMode = "separate") =>
             /\ Len(maps) = n
             /\ \A k \in 1..Len(maps) : maps[k][1] \in {"0:a", "a"} /\ maps[k][2] = k - 1
       /\ (fArgs.type = "video" /\ fArgs.audioMode # "separate" /\ n >= 1) => Len(maps) = 1

\* an mp3 export of two streams in 'separate' mode got one mapping
C27_Witness ==
  /\ onePass.built /\ fArgs.type = "mp3" /\ fArgs.audioMode = "separate"
  /\ fArgs.numAudioStreams = 2 /\ Len(AudioMaps(onePass)) = 1

\* the volume of stream i: its audioTracks entry, or 1.0
VolumeAt(i) == IF fArgs.audioTracks[i] = U THEN One ELSE fArgs.audioTracks[i]

HasVolumeFilter(g, i) ==
  \E k \in DOMAIN g.filterParts :
     g.filterParts[k].f = "volume" /\ g.filterParts[k].ins = << << "0:a", i >> >>

\* C28: buildFilterAndMaps has a volume filter for stream i exactly when the
\* volume of the stream is more than 1e-6 away from 1.0; in combine mode with
\* one stream of untouched volume it has no filter and maps the stream itself.
C28_VolumeFilters ==
  onePass.built =>
    /\ \A i \in StreamIdx :
          i < fArgs.numAudioStreams =>
            (HasVolumeFilter(onePass, i) <=>
               (VolumeAt(i) - One > Epsilon \/ One - VolumeAt(i) > Epsilon))
    /\ \A i \in StreamIdx : i >= fArgs.numAudioStreams => ~HasVolumeFilter(onePass, i)
    /\ ( /\ fArgs.numAudioStreams = 1
         /\ (fArgs.type = "mp3" \/ fArgs.audioMode # "separate")
         /\ VolumeAt(0) - One <= Epsilon /\ One - VolumeAt(0) <= Epsilon )
       => (onePass.filterParts = << >> /\ AudioMaps(onePass) = << << "0:a", 0 >> >>)

\* one stream with a volume within 1e-6 of 1.0 but not equal to it is mapped
\* directly, and of two streams the one at half volume alone gets a filter
C28_Witness ==
  /\ onePass.built
  /\ \/ /\ fArgs.numAudioStreams = 1 /\ fArgs.audioTracks[0] = One + 5
        /\ onePass.filterParts = << >>
     \/ /\ fArgs.numAudioStreams = 2 /\ fArgs.audioTracks[0] = U
        /\ fArgs.audioTracks[1] = One \div 2
        /\ HasVolumeFilter(onePass, 1) /\ ~HasVolumeFilter(onePass, 0)

\* the label a filter of g writes is read by another filter or mapped
Connected(g, k) ==
  \/ \E j \in DOMAIN g.mapOptions : g.mapOptions[j] = g.filterParts[k].out
  \/ \E j \in DOMAIN g.filterParts :
        \E x \in DOMAIN g.filterParts[j].ins : g.filterParts[j].ins[x] = g.filterParts[k].out

\* C29: the second pass maps as many audio outputs as buildFilterAndMaps
\* does for a single-pass video encode of the same inputs, and leaves no
\* filter output label unconnected.
C29_SecondPassAgrees ==
  (secondPass.built /\ onePass.built) =>
    /\ Len(AudioMaps(secondPass)) = Len(AudioMaps(onePass))
    /\ \A k \in DOMAIN secondPass.filterParts : Connected(secondPass, k)

\* ------------------------------------------------------------ thumbnail timestamp properties

\* C30: the capture timestamp is trimStart when both trim points are given
\* with trimStart >= 0 and trimEnd > trimStart; otherwise half the duration
\* when a positive duration is given; otherwise one second.  It is never
\* negative.
C30_Timestamp ==
  timestamp # U =>
    LET trimmed == /\ tArgs.trimStart # U /\ tArgs.trimEnd # U
                   /\ tArgs.trimStart >= 0 /\ tArgs.trimEnd > tArgs.trimStart
        timed == tArgs.duration # U /\ tArgs.duration > 0
    IN /\ trimmed => timestamp = tArgs.trimStart
       /\ (~trimmed /\ timed) => 2 * timestamp = tArgs.duration
       /\ (~trimmed /\ ~timed) => timestamp = Second
       /\ timestamp >= 0

\* a request with a negative trimStart before its trimEnd and a duration of
\* six seconds captured at three seconds
C30_Witness ==
  /\ tArgs.trimStart = -1000 /\ tArgs.trimEnd = 2000 /\ tArgs.duration = 6000
  /\ timestamp = 3000

\* ------------------------------------------------------------ watcher callback properties

\* what a step sent to the renderer
SentBy(before, after) ==
  IF Len(after) > Len(before) THEN after[Len(after)].kind ELSE "none"

\* C31: a timer callback emits 'file-added' only for a path that was not in
\* existingFiles, whose file had the same non-zero size on the two stats, and
\* then has the path in existingFiles; it emits 'file-removed' only for a path
\* in existingFiles whose file is gone, and then has removed the path; in
\* every other case it emits nothing and leaves existingFiles as it was.
C31_TimerCallback ==
  [][ Len(handled') > Len(handled) =>
        LET h == handled'[Len(handled')]
            addCase == ~h.tracked /\ h.s1 > 0 /\ h.s2 = h.s1
            removeCase == h.tracked /\ h.s1 = -1
            sent == SentBy(notes, notes')
        IN /\ h.tracked = existingFiles[h.gen]
           /\ sent = "file-added" => (addCase /\ existingFiles'[h.gen])
           /\ sent = "file-removed" => (removeCase /\ ~existingFiles'[h.gen])
           /\ (~addCase /\ ~removeCase) =>
                 (sent = "none" /\ existingFiles'[h.gen] = existingFiles[h.gen])
           /\ \A g \in Watchers : g # h.gen => existingFiles'[g] = existingFiles[g]
    ]_vars

\* one watcher reported a file added, ignored a change of the file it knew,
\* and reported the file removed
C31_Witness ==
  \E i, j, k \in DOMAIN handled :
     /\ handled[i].gen = handled[j].gen /\ handled[j].gen = handled[k].gen
     /\ handled[i].kind = "file-added" /\ handled[i].sent
     /\ handled[j].kind = "none" /\ handled[j].tracked /\ handled[j].s1 > 0
     /\ handled[k].kind = "file-removed" /\ handled[k].sent

\* ------------------------------------------------------------ clips store frame properties

\* the rows of the other content hashes are as the operation found them
OthersKept == \A h \in Hashes : h # dbLast.hash => clips[h] = dbLast.found[h]

\* C32: saveClipEdits leaves the favorite flag of its record as it was (not
\* set for a record it creates), toggleFavorite leaves the saved trimStart,
\* trimEnd and audioTracks of its record as they were (none for a record it
\* creates), and neither changes a record of another content hash.
C32_FrameEffects ==
  LET old == dbLast.found[dbLast.hash]
      new == clips[dbLast.hash]
  IN /\ dbLast.op = "saveClipEdits" =>
          /\ OthersKept
          /\ new.isFavorite = IF old = NoRow THEN 0 ELSE old.isFavorite
     /\ dbLast.op = "toggleFavorite" =>
          /\ OthersKept
          /\ new.trimStart = IF old = NoRow THEN Null ELSE old.trimStart
          /\ new.trimEnd = IF old = NoRow THEN Null ELSE old.trimEnd
          /\ new.audioTracks = IF old = NoRow THEN Null ELSE old.audioTracks

\* saveClipEdits rewrote the edits of a favorite record while the other hash
\* has a record too
C32_Witness ==
  /\ dbLast.op = "saveClipEdits"
  /\ dbLast.found[dbLast.hash] # NoRow
  /\ dbLast.found[dbLast.hash].isFavorite = 1
  /\ dbLast.found[dbLast.hash].trimStart # clips[dbLast.hash].trimStart
  /\ clips[dbLast.hash].isFavorite = 1
  /\ \E h \in Hashes : h # dbLast.hash /\ clips[h] # NoRow

\* ------------------------------------------------------------ ExportPanel restart properties

\* the jobs whose encode subprocess has started and has not exited
Running == { j \in Jobs : jobs[j].proc = "running" }

\* C33: with the panel's restart protocol at most one encode subprocess of
\* the session is running at any time.
C33_OneSubprocess == Cardinality(Running) <= 1

\* a step that job j makes in the panel: its completion, its 5 s failure
\* timer, or a progress event of its subprocess
PanelStepOf(j) ==
  \/ completion(j)
  \/ failTimer(j)
  \/ jobs[j].proc = "running" /\ progressListener(j) /\ UNCHANGED jobs

\* C38: the completion and the progress events of an export whose token is
\* not the current one change neither the processed path, nor the status,
\* nor the progress that the panel shows.
C38_TokenGuard ==
  [][ \A j \in Jobs : (j # exportTokenRef /\ PanelStepOf(j)) => shown' = shown ]_vars

\* ------------------------------------------------------------ cancel flag properties

\* C34: while no export-video invocation of the session is in progress, the
\* session id is not in canceledExports.
C34_NoFlagWhenIdle ==
  ePc \in {"idle", "done"} => ~canceledExports

\* ------------------------------------------------------------ audio task map properties

\* the finally block of extraction r runs in this step
AudioFinally(r) == audioRuns[r].ph = "probing" /\ audioRuns'[r].ph # "probing"

\* C35: the finally block of an audio extraction removes from
\* audioExtractTasks only the entry of that extraction: the entry that a
\* newer extraction of the same key has registered stays.
C35_OwnEntryOnly ==
  [][ \A r \in DOMAIN audioRuns :
        AudioFinally(r) =>
          \A k \in Vers :
             audioExtractTasks[k] # r => audioExtractTasks'[k] = audioExtractTasks[k] ]_vars

\* ------------------------------------------------------------ returned path properties

\* C36: when export-video has returned the output path, the last encode
\* attempt has ended with success and its file is at the path.
C36_ReturnedPathHasFile ==
  (ePc = "done" /\ result = "path") =>
     /\ outSize > 0
     /\ Len(settles) > 0 /\ settles[Len(settles)].res = "path"

\* ------------------------------------------------------------ watcher notification order

\* the notifications sent while watcher w was the latest watcher of the root
NotesOf(w) == { i \in DOMAIN notes : notes[i].root = w }

\* i and j are successive notifications of watch w
Successive(w, i, j) ==
  /\ i \in NotesOf(w) /\ j \in NotesOf(w) /\ i < j
  /\ \A k \in NotesOf(w) : ~(i < k /\ k < j)

\* C37: for the path, the notifications of a watch alternate between
\* 'file-added' and 'file-removed'; the first is 'file-removed' if the path
\* was there when the watch started and 'file-added' if it was not.
C37_Alternate ==
  \A w \in 1..wGen :
     /\ \A i, j \in DOMAIN notes : Successive(w, i, j) => notes[i].kind # notes[j].kind
     /\ \A i \in NotesOf(w) :
           (\A k \in NotesOf(w) : i <= k) =>
              notes[i].kind = IF scanned[w] THEN "file-removed" ELSE "file-added"

====
